---- MODULE Spec2Model ----
(***************************************************************************)
(* A model of the SQL Server dialect of SQLAlchemy                         *)
(* (lib/sqlalchemy/dialects/mssql/base.py):                                *)
(*                                                                         *)
(*   - MSExecutionContext: the IDENTITY_INSERT protocol around one         *)
(*     statement invocation (pre_exec, post_exec, handle_dbapi_exception,  *)
(*     rowcount), checked under SpecExec;                                  *)
(*   - MSSQLCompiler: the choice among TOP, OFFSET/FETCH and the           *)
(*     ROW_NUMBER rewrite (get_select_precolumns, limit_clause,            *)
(*     translate_select_structure), checked under SpecPage;                *)
(*   - MSDialect: the attributes set from the server version                *)
(*     (__init__, initialize, _setup_version_attributes), checked under    *)
(*     SpecDialect;                                                        *)
(*   - the schema resolver and its rendering (_schema_elements,            *)
(*     _owner_plus_db, MSIdentifierPreparer.quote_schema), checked under   *)
(*     SpecSchema;                                                         *)
(*   - MSSQLCompiler in legacy schema mode (visit_table, visit_alias,      *)
(*     visit_column, _schema_aliased_table and the FROM clauses of UPDATE  *)
(*     and DELETE), checked under SpecAlias;                               *)
(*   - _schema_elements called by several threads on the shared cache,     *)
(*     checked under SpecCache;                                            *)
(*   - the calls a dialect makes on a DBAPI connection                     *)
(*     (set_isolation_level, get_isolation_level, _switch_db), checked     *)
(*     under SpecConn.                                                     *)
(***************************************************************************)
EXTENDS Integers, Sequences, FiniteSets, TLC

(***************************************************************************)
(* Bounds of the model.                                                    *)
(***************************************************************************)
\* the affected-row counts the main statement may report are 0..MaxRows
MaxRows == 2
\* the identity values the server may generate are 1..MaxId
MaxId == 2
\* simple LIMIT / OFFSET values are 0..MaxPage
MaxPage == 3

(***************************************************************************)
(* The state.                                                              *)
(***************************************************************************)
VARIABLES
    \* ---- one statement invocation on one connection
    stmt,                    \* the compiled statement and its parameters
    pc,                      \* position of the invocation
    enable_identity_insert,  \* MSExecutionContext._enable_identity_insert
    select_lastrowid,        \* MSExecutionContext._select_lastrowid
    lastrowid,               \* MSExecutionContext._lastrowid, <<>> is None
    rowcount_,               \* MSExecutionContext._rowcount, <<>> is None
    cursor_rowcount,         \* cursor.rowcount of the DBAPI cursor
    main_rowcount,           \* cursor.rowcount as it was right after the main statement
    log,                     \* the statements sent on the connection, in order
    identity_insert_on,      \* the session-level IDENTITY_INSERT mode of the connection
    raised,                  \* the error the caller receives
    \* ---- one render call of a SELECT
    sel,                     \* the SELECT given to the compiler
    supports_offset_fetch,   \* MSDialect._supports_offset_fetch
    ppc,                     \* position of the render call
    stack,                   \* the SELECTs being visited, innermost last
    applied,                 \* the pagination strategies applied so far
    rewritten,               \* what translate_select_structure returned for sel
    compile_error,           \* whether the render call raised CompileError
    precolumns,              \* the TOP that get_select_precolumns rendered
    \* ---- one MSDialect object
    server_version_info,     \* MSDialect.server_version_info, a tuple
    deprecate_large_types,   \* MSDialect.deprecate_large_types, <<>> is None
    implicit_returning,      \* MSDialect.implicit_returning and full_returning
    supports_multivalues_insert, \* MSDialect.supports_multivalues_insert
    supports_nvarchar_max,   \* MSDialect._supports_nvarchar_max
    initialized,             \* how many times initialize has run
    \* ---- one call of the schema resolver
    schema,                  \* the schema argument, <<>> is None
    spc,                     \* position of the call
    dbname,                  \* the database of the returned pair, <<>> is None
    owner,                   \* the owner of the returned pair, <<>> is None
    rendered,                \* what quote_schema returned
    memoized_schema,         \* the module's _memoized_schema
    \* ---- one compile of a statement that refers to tables
    astmt,                   \* the statement given to the compiler
    legacy_schema_aliasing,  \* MSDialect.legacy_schema_aliasing
    apc,                     \* position of the compile
    todo,                    \* the elements the compiler has still to visit
    tablealiases,            \* MSSQLCompiler.tablealiases
    alias_calls,             \* the tables table.alias() was called on, in order
    out,                     \* the table references rendered so far
    \* ---- the threads that call the schema resolver
    callers,                 \* per thread: position, argument and result
    \* ---- one call of the dialect on a DBAPI connection
    cpc,                     \* position of the call
    ccall,                   \* the call: its arguments and local variables
    clog,                    \* what the call did on the connection, in order
    cresult,                 \* what the call returned or raised
    isolation_level,         \* the isolation level of the connection
    database                 \* the current database of the connection

execVars == <<stmt, pc, enable_identity_insert, select_lastrowid, lastrowid,
              rowcount_, cursor_rowcount, main_rowcount, log,
              identity_insert_on, raised>>
pageVars == <<sel, supports_offset_fetch, ppc, stack, applied, rewritten,
              compile_error, precolumns>>
dialectVars == <<server_version_info, deprecate_large_types,
                 implicit_returning, supports_multivalues_insert,
                 supports_nvarchar_max, initialized>>
schemaVars == <<schema, spc, dbname, owner, rendered, memoized_schema>>
aliasVars == <<astmt, legacy_schema_aliasing, apc, todo, tablealiases,
               alias_calls, out>>
cacheVars == <<callers>>
connVars == <<cpc, ccall, clog, cresult, isolation_level, database>>
vars == <<execVars, pageVars, dialectVars, schemaVars, aliasVars, cacheVars,
          connVars>>

\* what an action of one part leaves alone
nonExecVars ==
    <<pageVars, dialectVars, schemaVars, aliasVars, cacheVars, connVars>>
nonPageVars ==
    <<execVars, dialectVars, schemaVars, aliasVars, cacheVars, connVars>>
nonDialectVars == <<execVars, schemaVars, aliasVars, cacheVars, connVars>>
nonSchemaVars ==
    <<execVars, pageVars, dialectVars, aliasVars, cacheVars, connVars>>
nonAliasVars ==
    <<execVars, pageVars, dialectVars, schemaVars, cacheVars, connVars>>
nonCacheVars == <<execVars, pageVars, dialectVars, aliasVars, connVars>>
nonConnVars ==
    <<execVars, pageVars, dialectVars, schemaVars, aliasVars, cacheVars>>

(***************************************************************************)
(* MSExecutionContext                                                      *)
(***************************************************************************)
NoneVal == <<>>

\* the statements the execution context sends
SET_ON == "SET IDENTITY_INSERT t ON"
SET_OFF == "SET IDENTITY_INSERT t OFF"
SCOPE_IDENTITY == "SELECT scope_identity() AS lastrowid"
AT_IDENTITY == "SELECT @@identity AS lastrowid"
MAIN == "main statement"

\* keys of the statement's values dictionary (compile_state._dict_parameters):
\* the key of the identity column, the column object itself, another column
DictKeys == {"id_key", "id_col", "x"}

\* The statements an invocation may be given.
\*   kind           isinsert / isupdate / isdelete, or a SELECT
\*   idcol          tbl._autoincrement_column: "none" (None), "identity"
\*                  (default is no Sequence), "sequence" (default is a Sequence)
\*   key_in_params0 id_column.key in compiled_parameters[0]
\*   dict_none      compile_state._dict_parameters is None
\*   dict_keys      the keys of compile_state._dict_parameters
Statements ==
    { s \in [ kind : {"insert", "update", "delete", "select"},
              idcol : {"none", "identity", "sequence"},
              key_in_params0 : BOOLEAN,
              dict_none : BOOLEAN,
              dict_keys : SUBSET DictKeys,
              inline : BOOLEAN,
              returning : BOOLEAN,
              executemany : BOOLEAN,
              use_scope_identity : BOOLEAN ] :
        /\ (s.dict_none => s.dict_keys = {})
        \* what only an INSERT reads is fixed for the other kinds
        /\ (s.kind # "insert" =>
               /\ s.dict_none /\ ~s.inline /\ ~s.key_in_params0
               /\ s.idcol = "none" /\ s.use_scope_identity)
        /\ (s.kind = "select" => ~s.returning /\ ~s.executemany) }

isinsert(s) == s.kind = "insert"
isupdate(s) == s.kind = "update"
isdelete(s) == s.kind = "delete"

\* id_column is not None and its default is not a Sequence
insert_has_identity(s) == s.idcol = "identity"

\* the value pre_exec assigns to _enable_identity_insert (its truth value)
\* (faulty variant: the column object is not looked up in the dictionary)
EnableNoDictColumn(s) ==
    IF insert_has_identity(s)
    THEN \/ s.key_in_params0
         \/ (/\ ~s.dict_none /\ s.dict_keys # {}
             /\ "id_key" \in s.dict_keys)
    ELSE FALSE

EnableIdentityInsert(s) ==
    IF insert_has_identity(s)
    THEN \/ s.key_in_params0
         \/ (/\ ~s.dict_none /\ s.dict_keys # {}
             /\ ("id_key" \in s.dict_keys \/ "id_col" \in s.dict_keys))
    ELSE FALSE

\* the value pre_exec assigns to _select_lastrowid
\* (faulty variant: "not self._enable_identity_insert" is missing)
SelectLastrowidIgnoresEnable(s, enable) ==
    /\ ~s.inline
    /\ insert_has_identity(s)
    /\ ~s.returning
    /\ ~s.executemany

SelectLastrowid(s, enable) ==
    /\ ~s.inline
    /\ insert_has_identity(s)
    /\ ~s.returning
    /\ ~enable
    /\ ~s.executemany

\* the statement post_exec sends to retrieve the generated key
LastrowidSql(use_scope_identity) ==
    IF use_scope_identity THEN SCOPE_IDENTITY ELSE AT_IDENTITY

\* one statement sent on the connection: its text, whether it succeeded, and
\* the single value of its result row (<<>> when it has none)
Sent(sql, ok, result) == [sql |-> sql, ok |-> ok, result |-> result]

\* the affected-row counts a cursor may show after the main statement
\* (-1: the driver does not know)
RowCounts == -1 .. MaxRows

\* the statements pre_exec sends
PreExecStatements(s, enable, onOk) ==
    IF isinsert(s) /\ enable THEN <<Sent(SET_ON, onOk, NoneVal)>> ELSE <<>>

\* MSExecutionContext.pre_exec; onOk is the outcome of SET IDENTITY_INSERT ON
pre_exec(onOk) ==
    /\ pc = "idle"
    /\ LET enable == IF isinsert(stmt) THEN EnableIdentityInsert(stmt)
                     ELSE enable_identity_insert
           sent == PreExecStatements(stmt, enable, onOk)
       IN /\ (sent = <<>> => onOk)
          /\ enable_identity_insert' = enable
          /\ select_lastrowid' =
                 IF isinsert(stmt) THEN SelectLastrowid(stmt, enable)
                 ELSE select_lastrowid
          /\ log' = log \o sent
          /\ cursor_rowcount' = IF sent # <<>> THEN -1 ELSE cursor_rowcount
          /\ identity_insert_on' =
                 IF sent # <<>> /\ onOk THEN TRUE ELSE identity_insert_on
          /\ pc' = IF onOk THEN "ready" ELSE "raising"
          /\ raised' = IF onOk THEN raised ELSE "enable"
    /\ UNCHANGED <<stmt, lastrowid, rowcount_, main_rowcount, nonExecVars>>

(***************************************************************************)
(* The caller of the execution context is the connection, which is not     *)
(* part of the dialect.  It runs one invocation as                         *)
(*     pre_exec, the main statement, post_exec,                            *)
(* and every statement of the invocation goes through it (pre_exec and     *)
(* post_exec hand it the context with each statement they send).  When a   *)
(* statement of the invocation fails, or the caller aborts, the cleanup    *)
(* step handle_dbapi_exception runs once before the invocation ends and    *)
(* the error is raised to the caller.                                      *)
(***************************************************************************)
\* The main statement runs on the cursor; rc is the row count the cursor
\* shows afterwards.
do_execute(ok, rc) ==
    /\ pc = "ready"
    /\ (stmt.kind = "select" \/ ~ok) => rc = -1
    /\ log' = Append(log, Sent(MAIN, ok, NoneVal))
    /\ cursor_rowcount' = rc
    /\ main_rowcount' = rc
    /\ pc' = IF ok THEN "executed" ELSE "raising"
    /\ raised' = IF ok THEN raised ELSE "main"
    /\ UNCHANGED <<stmt, enable_identity_insert, select_lastrowid, lastrowid,
                   rowcount_, identity_insert_on, nonExecVars>>

\* what post_exec does between capturing the row count and disabling
\* IDENTITY_INSERT: "lastrowid" (send the retrieval statement and fetch its
\* row), "fetch" (buffer the RETURNING rows), or "skip"
PostExecStep(s, lastrow) ==
    IF lastrow THEN "lastrowid"
    ELSE IF (isinsert(s) \/ isupdate(s) \/ isdelete(s)) /\ s.returning
         THEN "fetch"
         ELSE "skip"

\* the row count post_exec stores in _rowcount, given the cursor's row count
\* on entry and after the statements post_exec itself sent
\* (faulty variant: the count is read after the follow-up statements)
CapturedRowcountLate(s, old, onEntry, afterFollowUps) ==
    IF isinsert(s) \/ isupdate(s) \/ isdelete(s) THEN <<afterFollowUps>> ELSE old

CapturedRowcount(s, old, onEntry, afterFollowUps) ==
    IF isinsert(s) \/ isupdate(s) \/ isdelete(s) THEN <<onEntry>> ELSE old

\* the disabling statement at the end of post_exec
\* (faulty variant: post_exec never disables)
PostExecNeverDisables(enable, offOk) == <<>>

PostExecDisable(enable, offOk) ==
    IF enable THEN <<Sent(SET_OFF, offOk, NoneVal)>> ELSE <<>>

\* MSExecutionContext.post_exec.  o1 is the outcome of the step before the
\* disabling statement ("ok", "exec_fail": the retrieval statement failed,
\* "fetch_fail": fetchall or int() raised), id the value scope_identity() or
\* @@identity returns, offOk the outcome of SET IDENTITY_INSERT OFF.
post_exec(o1, id, offOk) ==
    /\ pc = "executed"
    /\ LET step == PostExecStep(stmt, select_lastrowid)
           ok1 == o1 = "ok"
           fetched == step = "lastrowid" /\ o1 # "exec_fail"
           sent1 == IF step = "lastrowid"
                    THEN <<Sent(LastrowidSql(stmt.use_scope_identity),
                                o1 # "exec_fail",
                                IF fetched THEN <<id>> ELSE NoneVal)>>
                    ELSE <<>>
           sent2 == IF ok1 THEN PostExecDisable(enable_identity_insert, offOk)
                    ELSE <<>>
           failed == ~ok1 \/ (sent2 # <<>> /\ ~offOk)
           after == IF sent1 \o sent2 # <<>> THEN -1 ELSE cursor_rowcount
       IN /\ (step = "skip" => ok1)
          /\ (step = "fetch" => o1 # "exec_fail")
          /\ (sent2 = <<>> => offOk)
          /\ (~fetched => id = 1)
          /\ rowcount_' =
                 CapturedRowcount(stmt, rowcount_, cursor_rowcount, after)
          /\ lastrowid' = IF step = "lastrowid" /\ ok1 THEN <<id>> ELSE lastrowid
          /\ log' = log \o sent1 \o sent2
          /\ cursor_rowcount' = after
          /\ identity_insert_on' =
                 IF sent2 # <<>> /\ offOk THEN FALSE ELSE identity_insert_on
          /\ pc' = IF failed THEN "raising" ELSE "closed"
          /\ raised' = IF failed THEN "post" ELSE raised
    /\ UNCHANGED <<stmt, enable_identity_insert, select_lastrowid,
                   main_rowcount, nonExecVars>>

\* the caller gives up between two steps of the invocation
Abort ==
    /\ pc \in {"ready", "executed"}
    /\ pc' = "raising"
    /\ raised' = "abort"
    /\ UNCHANGED <<stmt, enable_identity_insert, select_lastrowid, lastrowid,
                   rowcount_, cursor_rowcount, main_rowcount, log,
                   identity_insert_on, nonExecVars>>

\* the statement handle_dbapi_exception sends
\* (faulty variant: the handler sends nothing)
HandlerSendsNothing(enable, cleanOk) == <<>>

\* (faulty variant: the handler does not look at _enable_identity_insert)
HandlerDisablesAlways(enable, cleanOk) == <<Sent(SET_OFF, cleanOk, NoneVal)>>

HandlerStatements(enable, cleanOk) ==
    IF enable THEN <<Sent(SET_OFF, cleanOk, NoneVal)>> ELSE <<>>

\* the error that leaves handle_dbapi_exception, given the error it was
\* called for and the outcome of its own statement: "except Exception: pass"
\* (faulty variant: no try/except around the cleanup statement)
CleanupRaisedUnguarded(original, sent, cleanOk) ==
    IF sent # <<>> /\ ~cleanOk THEN "cleanup" ELSE original

CleanupRaised(original, sent, cleanOk) == original

\* MSExecutionContext.handle_dbapi_exception, called with the error of the
\* invocation; cleanOk is the outcome of its SET IDENTITY_INSERT OFF
handle_dbapi_exception(cleanOk) ==
    /\ pc = "raising"
    /\ LET sent == HandlerStatements(enable_identity_insert, cleanOk)
       IN /\ (sent = <<>> => cleanOk)
          /\ log' = log \o sent
          /\ cursor_rowcount' = IF sent # <<>> THEN -1 ELSE cursor_rowcount
          /\ identity_insert_on' =
                 IF sent # <<>> /\ cleanOk THEN FALSE ELSE identity_insert_on
          /\ raised' = CleanupRaised(raised, sent, cleanOk)
    /\ pc' = "closed"
    /\ UNCHANGED <<stmt, enable_identity_insert, select_lastrowid, lastrowid,
                   rowcount_, main_rowcount, nonExecVars>>

\* MSExecutionContext.rowcount
rowcount == IF rowcount_ # NoneVal THEN rowcount_[1] ELSE cursor_rowcount

\* a new invocation on the free connection: a new execution context, with
\* the class defaults, and a new cursor
Begin(s) ==
    /\ pc = "free"
    /\ stmt' = s
    /\ pc' = "idle"
    /\ UNCHANGED <<enable_identity_insert, select_lastrowid, lastrowid,
                   rowcount_, cursor_rowcount, main_rowcount, log,
                   identity_insert_on, raised, nonExecVars>>

\* the invocation is over: its context and cursor are dropped and the
\* connection, with its session-level mode, is free for the next statement
Release ==
    /\ pc = "closed"
    /\ stmt' = NoneVal
    /\ pc' = "free"
    /\ enable_identity_insert' = FALSE
    /\ select_lastrowid' = FALSE
    /\ lastrowid' = NoneVal
    /\ rowcount_' = NoneVal
    /\ cursor_rowcount' = -1
    /\ main_rowcount' = -1
    /\ log' = <<>>
    /\ raised' = "none"
    /\ UNCHANGED <<identity_insert_on, nonExecVars>>

PageIdle ==
    /\ sel = NoneVal
    /\ supports_offset_fetch = FALSE
    /\ ppc = "off"
    /\ stack = <<>>
    /\ applied = <<>>
    /\ rewritten = NoneVal
    /\ compile_error = FALSE
    /\ precolumns = NoneVal

\* MSDialect.__init__: the dialect as constructed, with the attributes the
\* class declares and the deprecate_large_types the caller passed (<<>> is
\* None, the default)
__init__(deprecate) ==
    /\ server_version_info = <<>>
    /\ deprecate_large_types = deprecate
    /\ implicit_returning = TRUE
    /\ supports_multivalues_insert = FALSE
    /\ supports_nvarchar_max = FALSE
    /\ initialized = 0

DialectIdle == __init__(NoneVal)

\* no call of the resolver yet: _memoized_schema is empty
SchemaIdle ==
    /\ schema = NoneVal
    /\ spc = "idle"
    /\ dbname = NoneVal
    /\ owner = NoneVal
    /\ rendered = NoneVal
    /\ memoized_schema = <<>>

\* a new connection: READ COMMITTED, on the database "master", no call yet
ConnIdle ==
    /\ cpc = "idle"
    /\ ccall = NoneVal
    /\ clog = <<>>
    /\ cresult = NoneVal
    /\ isolation_level = <<"READ", " ", "COMMITTED">>
    /\ database = "master"

\* the threads of the process
MaxThreads == 2
Threads == 1 .. MaxThreads

\* a thread that is not inside _schema_elements
NoCall == [pc |-> "idle", arg |-> NoneVal, result |-> NoneVal, hit |-> FALSE]

CacheIdle == callers = [t \in Threads |-> NoCall]

\* no compile under way: MSSQLCompiler.__init__ gives an empty tablealiases
AliasIdle ==
    /\ astmt = NoneVal
    /\ legacy_schema_aliasing = FALSE
    /\ apc = "off"
    /\ todo = <<>>
    /\ tablealiases = {}
    /\ alias_calls = <<>>
    /\ out = <<>>

ExecIdle ==
    /\ stmt = NoneVal
    /\ pc = "free"
    /\ enable_identity_insert = FALSE
    /\ select_lastrowid = FALSE
    /\ lastrowid = NoneVal
    /\ rowcount_ = NoneVal
    /\ cursor_rowcount = -1
    /\ main_rowcount = -1
    /\ log = <<>>
    /\ identity_insert_on = FALSE
    /\ raised = "none"

InitExec ==
    ExecIdle /\ PageIdle /\ DialectIdle /\ SchemaIdle /\ AliasIdle /\ CacheIdle
    /\ ConnIdle

NextExec ==
    \/ \E onOk \in BOOLEAN : pre_exec(onOk)
    \/ \E ok \in BOOLEAN, rc \in RowCounts : do_execute(ok, rc)
    \/ \E o1 \in {"ok", "exec_fail", "fetch_fail"}, id \in 1 .. MaxId,
          offOk \in BOOLEAN : post_exec(o1, id, offOk)
    \/ Abort
    \/ \E cleanOk \in BOOLEAN : handle_dbapi_exception(cleanOk)
    \/ \E s \in Statements : Begin(s)
    \/ Release

SpecExec == InitExec /\ [][NextExec]_vars

(***************************************************************************)
(* MSSQLCompiler: LIMIT / OFFSET                                           *)
(***************************************************************************)
\* the values a LIMIT or OFFSET clause may have: 0..MaxPage, and the 5 and
\* 10 of the documented example limit(5).offset(10)
PageValues == (0 .. MaxPage) \cup {5, 10}

\* A LIMIT or OFFSET clause: absent ("none"), a plain integer ("simple"), or
\* another expression ("expr") whose value is known when the statement runs.
NoClause == [kind |-> "none", value |-> 0]
Clauses ==
    {NoClause} \cup [kind : {"simple", "expr"}, value : PageValues]

\* The SELECTs given to the compiler.
\*   limit, offset   select._limit_clause, select._offset_clause
\*   order_by        select._order_by_clause.clauses is not empty
\*   mssql_visit     the attribute _mssql_visit
\*   columns         the keys of the selected columns
\*   where           the criteria on the row number, in the order added
\*   inner           <<>> or the aliased SELECT this one selects from
Selects ==
    [ limit : Clauses,
      offset : Clauses,
      order_by : BOOLEAN,
      mssql_visit : {FALSE},
      columns : {<<"x">>, <<"x", "y">>, <<"x", "mssql_rn">>},
      where : {<<>>},
      inner : {<<>>} ]

\* Select._simple_int_limit, Select._simple_int_offset
simple_int_limit(select) == select.limit.kind = "simple"
simple_int_offset(select) == select.offset.kind = "simple"

\* the truth value of Select._offset: None without OFFSET, else the integer
\* of a simple OFFSET (the compiler does not read it for another expression)
offset_truthy(select) ==
    select.offset.kind = "simple" /\ select.offset.value # 0

\* the condition of get_select_precolumns
\* (faulty variant: TOP whenever the LIMIT is a simple integer)
TopAppliesAnyOffset(select) == simple_int_limit(select)

TopApplies(select) ==
    /\ simple_int_limit(select)
    /\ \/ select.offset.kind = "none"
       \/ (simple_int_offset(select) /\ select.offset.value = 0)

\* the condition on which limit_clause returns ""
LimitClauseEmpty(select, supports) ==
    \/ ~supports
    \/ /\ (simple_int_limit(select) \/ select.limit.kind = "none")
       /\ (select.offset.kind = "none" \/ simple_int_offset(select))
       /\ ~offset_truthy(select)

\* the condition of translate_select_structure
\* (faulty variant: the _mssql_visit tag is not looked at)
RewriteAppliesUntagged(select, supports) ==
    /\ ~supports
    /\ \/ (~simple_int_limit(select) /\ select.limit.kind # "none")
       \/ (select.offset.kind # "none" /\ ~simple_int_offset(select))
       \/ offset_truthy(select)

RewriteApplies(select, supports) ==
    /\ ~supports
    /\ \/ (~simple_int_limit(select) /\ select.limit.kind # "none")
       \/ (select.offset.kind # "none" /\ ~simple_int_offset(select))
       \/ offset_truthy(select)
    /\ ~select.mssql_visit

\* one criterion on the row number: mssql_rn <op> <value>
Crit(op, value) == [op |-> op, value |-> value]

\* the criteria translate_select_structure adds to the outer SELECT
\* (faulty variant: the upper bound leaves out the offset)
RankFilterNoOffset(limit_clause, offset_clause) ==
    IF offset_clause.kind # "none"
    THEN <<Crit(">", offset_clause.value)>>
         \o (IF limit_clause.kind # "none"
             THEN <<Crit("<=", limit_clause.value)>>
             ELSE <<>>)
    ELSE <<Crit("<=", limit_clause.value)>>

\* (faulty variant: the upper bound is added also without a LIMIT)
RankFilterAlwaysUpper(limit_clause, offset_clause) ==
    IF offset_clause.kind # "none"
    THEN <<Crit(">", offset_clause.value),
           Crit("<=", limit_clause.value + offset_clause.value)>>
    ELSE <<Crit("<=", limit_clause.value)>>

RankFilter(limit_clause, offset_clause) ==
    IF offset_clause.kind # "none"
    THEN <<Crit(">", offset_clause.value)>>
         \o (IF limit_clause.kind # "none"
             THEN <<Crit("<=", limit_clause.value + offset_clause.value)>>
             ELSE <<>>)
    ELSE <<Crit("<=", limit_clause.value)>>

\* the columns of the outer SELECT: [c for c in select.c if c.key != "mssql_rn"]
OuterColumns(cols) == SelectSeq(cols, LAMBDA k : k # "mssql_rn")

\* the statement translate_select_structure builds: the tagged copy of the
\* SELECT with the row number added and the ORDER BY removed, aliased, and
\* the outer SELECT over it
limitselect(select) ==
    LET tagged == [select EXCEPT
                      !.mssql_visit = TRUE,
                      !.columns = Append(select.columns, "mssql_rn"),
                      !.order_by = FALSE]
    IN [ limit |-> NoClause,
         offset |-> NoClause,
         order_by |-> FALSE,
         mssql_visit |-> FALSE,
         columns |-> OuterColumns(tagged.columns),
         where |-> RankFilter(select.limit, select.offset),
         inner |-> <<tagged>> ]

\* MSSQLCompiler.translate_select_structure: whether it raises CompileError,
\* whether it rewrote, the statement it returns (result) and the statement
\* it was given as the call leaves it (given)
\* (faulty variant: the ORDER BY is not asked for)
translate_select_structureAnyOrder(select, supports) ==
    IF RewriteApplies(select, supports)
    THEN [raises |-> FALSE, rewrote |-> TRUE, result |-> limitselect(select),
          given |-> select]
    ELSE [raises |-> FALSE, rewrote |-> FALSE, result |-> select,
          given |-> select]

\* (faulty variant: no select._generate(), the tag, the row number and the
\* removal of the ORDER BY are applied to the statement given)
translate_select_structureInPlace(select, supports) ==
    IF RewriteApplies(select, supports)
    THEN IF ~select.order_by
         THEN [raises |-> TRUE, rewrote |-> FALSE, result |-> select,
               given |-> select]
         ELSE [raises |-> FALSE, rewrote |-> TRUE,
               result |-> limitselect(select),
               given |-> limitselect(select).inner[1]]
    ELSE [raises |-> FALSE, rewrote |-> FALSE, result |-> select,
          given |-> select]

translate_select_structure(select, supports) ==
    IF RewriteApplies(select, supports)
    THEN IF ~select.order_by
         THEN [raises |-> TRUE, rewrote |-> FALSE, result |-> select,
               given |-> select]
         ELSE [raises |-> FALSE, rewrote |-> TRUE,
               result |-> limitselect(select), given |-> select]
    ELSE [raises |-> FALSE, rewrote |-> FALSE, result |-> select,
          given |-> select]

\* MSSQLCompiler.get_select_precolumns: whether it renders TOP n, and for a
\* TOP the value and the literal_execute keyword the LIMIT is processed with
\* (faulty variant: the LIMIT is processed as an ordinary bound parameter)
get_select_precolumnsBound(select) ==
    IF TopApplies(select)
    THEN [top |-> TRUE, value |-> select.limit.value, literal_execute |-> FALSE]
    ELSE [top |-> FALSE, value |-> 0, literal_execute |-> FALSE]

get_select_precolumns(select) ==
    IF TopApplies(select)
    THEN [top |-> TRUE, value |-> select.limit.value, literal_execute |-> TRUE]
    ELSE [top |-> FALSE, value |-> 0, literal_execute |-> FALSE]

\* MSSQLCompiler.limit_clause: whether it raises CompileError and whether it
\* renders OFFSET n ROWS [FETCH NEXT n ROWS ONLY]
\* (faulty variant: the ORDER BY is not asked for)
limit_clauseAnyOrder(select, supports) ==
    IF LimitClauseEmpty(select, supports)
    THEN [raises |-> FALSE, offset_fetch |-> FALSE]
    ELSE [raises |-> FALSE, offset_fetch |-> TRUE]

limit_clause(select, supports) ==
    IF LimitClauseEmpty(select, supports)
    THEN [raises |-> FALSE, offset_fetch |-> FALSE]
    ELSE IF ~select.order_by
         THEN [raises |-> TRUE, offset_fetch |-> FALSE]
         ELSE [raises |-> FALSE, offset_fetch |-> TRUE]

\* the frame of one SELECT being visited
Frame(select, step) == [select |-> select, step |-> step]
Top == stack[Len(stack)]
ReplaceTop(frame) == [stack EXCEPT ![Len(stack)] = frame]
Pop == SubSeq(stack, 1, Len(stack) - 1)

\* a render call starts: the compiler of a dialect whose
\* _supports_offset_fetch is `supports` visits the SELECT
Render(select, supports) ==
    /\ ppc = "off"
    /\ sel' = select
    /\ supports_offset_fetch' = supports
    /\ stack' = <<Frame(select, "translate")>>
    /\ ppc' = "render"
    /\ UNCHANGED <<applied, rewritten, compile_error, precolumns, nonPageVars>>

\* visit_select calls translate_select_structure and goes on with the
\* statement it returns
VisitTranslate ==
    /\ ppc = "render"
    /\ Top.step = "translate"
    /\ LET r == translate_select_structure(Top.select, supports_offset_fetch)
       IN /\ compile_error' = r.raises
          /\ ppc' = IF r.raises THEN "done" ELSE "render"
          /\ stack' = IF r.raises THEN <<>>
                       ELSE ReplaceTop(Frame(r.result, "precolumns"))
          /\ applied' = IF r.rewrote THEN Append(applied, "ROW_NUMBER")
                         ELSE applied
          /\ rewritten' = IF Len(stack) = 1 /\ ~r.raises THEN <<r.result>>
                           ELSE rewritten
          /\ sel' = IF Len(stack) = 1 THEN r.given ELSE sel
    /\ UNCHANGED <<supports_offset_fetch, precolumns, nonPageVars>>

\* visit_select calls get_select_precolumns and then visits the SELECT in
\* the FROM clause, if there is one
VisitPrecolumns ==
    /\ ppc = "render"
    /\ Top.step = "precolumns"
    /\ LET r == get_select_precolumns(Top.select)
       IN /\ applied' = IF r.top THEN Append(applied, "TOP") ELSE applied
          /\ precolumns' =
                 IF r.top
                 THEN <<[value |-> r.value,
                         literal_execute |-> r.literal_execute]>>
                 ELSE precolumns
    /\ stack' = IF Top.select.inner # <<>>
                 THEN Append(ReplaceTop(Frame(Top.select, "limit")),
                             Frame(Top.select.inner[1], "translate"))
                 ELSE ReplaceTop(Frame(Top.select, "limit"))
    /\ UNCHANGED <<sel, supports_offset_fetch, ppc, rewritten, compile_error,
                   nonPageVars>>

\* visit_select calls limit_clause, which ends the visit of this SELECT
VisitLimitClause ==
    /\ ppc = "render"
    /\ Top.step = "limit"
    /\ LET r == limit_clause(Top.select, supports_offset_fetch)
       IN /\ compile_error' = r.raises
          /\ applied' = IF r.offset_fetch
                         THEN Append(applied, "OFFSET_FETCH")
                         ELSE applied
          /\ stack' = IF r.raises THEN <<>> ELSE Pop
          /\ ppc' = IF r.raises \/ Len(stack) = 1 THEN "done" ELSE "render"
    /\ UNCHANGED <<sel, supports_offset_fetch, rewritten, precolumns,
                   nonPageVars>>

\* the caller renders the same statement once more, with a new compiler of
\* the same dialect
Rerender ==
    /\ ppc = "done"
    /\ stack' = <<Frame(sel, "translate")>>
    /\ ppc' = "render"
    /\ applied' = <<>>
    /\ rewritten' = NoneVal
    /\ compile_error' = FALSE
    /\ precolumns' = NoneVal
    /\ UNCHANGED <<sel, supports_offset_fetch, nonPageVars>>

\* the render call is over; the compiler is dropped, the dialect stays
RenderDone ==
    /\ ppc = "done"
    /\ sel' = NoneVal
    /\ ppc' = "off"
    /\ stack' = <<>>
    /\ applied' = <<>>
    /\ rewritten' = NoneVal
    /\ compile_error' = FALSE
    /\ precolumns' = NoneVal
    /\ UNCHANGED <<supports_offset_fetch, nonPageVars>>

InitPage ==
    ExecIdle /\ PageIdle /\ DialectIdle /\ SchemaIdle /\ AliasIdle /\ CacheIdle
    /\ ConnIdle

NextPage ==
    \/ \E select \in Selects, supports \in BOOLEAN : Render(select, supports)
    \/ VisitTranslate
    \/ VisitPrecolumns
    \/ VisitLimitClause
    \/ Rerender
    \/ RenderDone

SpecPage == InitPage /\ [][NextPage]_vars

(***************************************************************************)
(* MSDialect: the attributes set from the server version                   *)
(***************************************************************************)
\* the largest major version a server reports
MaxMajor == 17
\* the largest minor version a server reports
MaxMinor == 1
\* initialize runs at most MaxInit times on one dialect
MaxInit == 2

MS_2012_VERSION == <<11>>
MS_2008_VERSION == <<10>>
MS_2005_VERSION == <<9>>

\* the server_version_info a connection reports, (major,) or (major, minor):
\* the versions 8 to 16 that _setup_version_attributes does not warn about,
\* the one below them and those up to MaxMajor
Versions ==
    LET majors == 7 .. MaxMajor
    IN {<<m>> : m \in majors} \cup (majors \X (0 .. MaxMinor))

\* a < b for two tuples of integers, as Python compares them
RECURSIVE TupleLess(_, _)
TupleLess(a, b) ==
    IF b = <<>> THEN FALSE
    ELSE IF a = <<>> THEN TRUE
    ELSE IF a[1] # b[1] THEN a[1] < b[1]
    ELSE TupleLess(Tail(a), Tail(b))

\* deprecate_large_types as _setup_version_attributes leaves it
\* (faulty variant: set from the version whatever the value was)
SetupDeprecateLargeTypesAlways(old, v) == <<~TupleLess(v, MS_2012_VERSION)>>

SetupDeprecateLargeTypes(old, v) ==
    IF old = NoneVal THEN <<~TupleLess(v, MS_2012_VERSION)>> ELSE old

\* _supports_offset_fetch as _setup_version_attributes leaves it
\* (faulty variant: SQL Server 2008 is taken to support OFFSET/FETCH)
SetupSupportsOffsetFetch2008(v) == v # <<>> /\ v[1] >= 10

SetupSupportsOffsetFetch(v) == v # <<>> /\ v[1] >= 11

\* MSDialect._setup_version_attributes, with server_version_info = v
_setup_version_attributes(v) ==
    /\ implicit_returning' =
           IF TupleLess(v, MS_2005_VERSION) THEN FALSE ELSE implicit_returning
    /\ supports_multivalues_insert' =
           IF ~TupleLess(v, MS_2008_VERSION) THEN TRUE
           ELSE supports_multivalues_insert
    /\ deprecate_large_types' =
           SetupDeprecateLargeTypes(deprecate_large_types, v)
    /\ supports_offset_fetch' = SetupSupportsOffsetFetch(v)

\* MSDialect.initialize, on a connection to a server that reports version v
\* and accepts NVARCHAR(max) or not: DefaultDialect.initialize stores
\* server_version_info, then the version attributes are set
initialize(v, nvarchar_max) ==
    /\ initialized < MaxInit
    /\ server_version_info' = v
    /\ _setup_version_attributes(v)
    /\ supports_nvarchar_max' = nvarchar_max
    /\ initialized' = initialized + 1
    /\ UNCHANGED <<sel, ppc, stack, applied, rewritten, compile_error,
                   precolumns, nonDialectVars>>

\* the SELECTs compiled with the dialect
DialectSelects ==
    {s \in Selects :
        /\ s.columns = <<"x">>
        /\ s.limit \in {NoClause, [kind |-> "simple", value |-> 5]}
        /\ s.offset \in {NoClause,
                          [kind |-> "simple", value |-> 0],
                          [kind |-> "simple", value |-> 10],
                          [kind |-> "expr", value |-> 10]}}

\* a statement is compiled with the dialect as it is now
Compile(select) == Render(select, supports_offset_fetch)

InitDialect ==
    /\ ExecIdle /\ PageIdle /\ SchemaIdle /\ AliasIdle /\ CacheIdle
    /\ ConnIdle
    /\ \E deprecate \in {NoneVal, <<TRUE>>, <<FALSE>>} : __init__(deprecate)

NextDialect ==
    \/ \E v \in Versions, nvarchar_max \in BOOLEAN : initialize(v, nvarchar_max)
    \/ \E select \in DialectSelects : Compile(select)
    \/ VisitTranslate
    \/ VisitPrecolumns
    \/ VisitLimitClause
    \/ RenderDone

SpecDialect == InitDialect /\ [][NextDialect]_vars

(***************************************************************************)
(* The schema resolver: _schema_elements, _owner_plus_db, quote_schema     *)
(***************************************************************************)
\* every schema string of up to MaxLen characters of Alphabet is resolved
MaxLen == 7
\* the names X and Y of [X] and [X].[Y] have up to MaxName characters
MaxName == 3

\* A string is the sequence of its characters. A name is a string with the
\* quote attribute of a quoted_name: <<>> (None, also a plain str), <<TRUE>>
\* or <<FALSE>>. An absent name (None) is <<>>, a present one <<name>>.
Name(text, quote) == [text |-> text, quote |-> quote]
Str(text) == Name(text, NoneVal)

Alphabet == {"a", ".", "[", "]"}
NameChars == {"a", "b", "."}

Strings(chars, n) == UNION {[1 .. k -> chars] : k \in 0 .. n}
Names == Strings(NameChars, MaxName) \ {<<>>}
Bracketed(x) == <<"[">> \o x \o <<"]">>

\* the documented "a.b.c" and "MyDataBase.dbo"
Documented == {<<"a", ".", "b", ".", "c">>, <<"a", ".", "b">>}

\* the schema strings: all short strings, the documented ones, and the
\* documented forms [X] and [X].[Y]
SchemaTexts ==
    Strings(Alphabet, MaxLen) \cup Documented
        \cup {Bracketed(X) : X \in Names}
        \cup {Bracketed(X) \o <<".">> \o Bracketed(Y) : X \in Names, Y \in Names}

\* the schema arguments: None, a plain str, or a quoted_name with a quote
\* flag of True or False
SchemaArgs ==
    {NoneVal} \cup {<<Str(s)>> : s \in SchemaTexts}
        \cup {<<Name(s, <<q>>)>> : s \in Documented, q \in BOOLEAN}

\* re.split(r"(\[|\]|\.)", schema): the texts between the separators, the
\* empty ones too, with the separators between them
RECURSIVE Split(_, _)
Split(s, text) ==
    IF s = <<>> THEN <<text>>
    ELSE IF Head(s) \in {"[", "]", "."}
         THEN <<text, <<Head(s)>>>> \o Split(Tail(s), <<>>)
         ELSE Split(Tail(s), Append(text, Head(s)))

re_split(s) == Split(s, <<>>)

\* one round of the loop of _schema_elements over the tokens
\* (faulty variant: a "." splits also between brackets)
LoopStepSplitsInBrackets(st, token) ==
    IF token = <<>> THEN st
    ELSE IF token = <<"[">>
         THEN [st EXCEPT !.bracket = TRUE, !.has_brackets = TRUE]
    ELSE IF token = <<"]">>
         THEN [st EXCEPT !.bracket = FALSE]
    ELSE IF token = <<".">>
         THEN [st EXCEPT
                  !.push = Append(@, IF st.has_brackets
                                     THEN Bracketed(st.symbol)
                                     ELSE st.symbol),
                  !.symbol = <<>>,
                  !.has_brackets = FALSE]
    ELSE [st EXCEPT !.symbol = @ \o token]

LoopStep(st, token) ==
    IF token = <<>> THEN st
    ELSE IF token = <<"[">>
         THEN [st EXCEPT !.bracket = TRUE, !.has_brackets = TRUE]
    ELSE IF token = <<"]">>
         THEN [st EXCEPT !.bracket = FALSE]
    ELSE IF ~st.bracket /\ token = <<".">>
         THEN [st EXCEPT
                  !.push = Append(@, IF st.has_brackets
                                     THEN Bracketed(st.symbol)
                                     ELSE st.symbol),
                  !.symbol = <<>>,
                  !.has_brackets = FALSE]
    ELSE [st EXCEPT !.symbol = @ \o token]

RECURSIVE Loop(_, _)
Loop(st, tokens) ==
    IF tokens = <<>> THEN st
    ELSE Loop(LoopStep(st, Head(tokens)), Tail(tokens))

\* ".".join(parts)
RECURSIVE Join(_)
Join(parts) ==
    IF parts = <<>> THEN <<>>
    ELSE IF Len(parts) = 1 THEN parts[1]
    ELSE parts[1] \o <<".">> \o Join(Tail(parts))

\* s[1:-1]
Inner(s) == SubSeq(s, 2, Len(s) - 1)

\* re.match(r".*\].*\[.*", s)
InternalBrackets(s) ==
    \E i \in DOMAIN s, j \in DOMAIN s : i < j /\ s[i] = "]" /\ s[j] = "["

\* s.lstrip(c), s.rstrip(c)
RECURSIVE lstrip(_, _)
lstrip(s, c) == IF s # <<>> /\ Head(s) = c THEN lstrip(Tail(s), c) ELSE s

RECURSIVE rstrip(_, _)
rstrip(s, c) ==
    IF s # <<>> /\ s[Len(s)] = c THEN rstrip(SubSeq(s, 1, Len(s) - 1), c)
    ELSE s

\* the pair _schema_elements computes for a string that is not in the cache
ParseSchema(s) ==
    LET st == Loop([push |-> <<>>, symbol |-> <<>>,
                    bracket |-> FALSE, has_brackets |-> FALSE],
                   re_split(s))
        push == IF st.symbol # <<>> THEN Append(st.push, st.symbol)
                ELSE st.push
        joined == Join(SubSeq(push, 1, Len(push) - 1))
    IN IF Len(push) > 1
       THEN [dbname |->
                 IF InternalBrackets(Inner(joined))
                 THEN <<Name(joined, <<FALSE>>)>>
                 ELSE <<Str(rstrip(lstrip(joined, "["), "]"))>>,
             owner |-> <<Str(push[Len(push)])>>]
       ELSE IF Len(push) = 1
       THEN [dbname |-> NoneVal, owner |-> <<Str(push[1])>>]
       ELSE [dbname |-> NoneVal, owner |-> NoneVal]

\* the most entries _memoized_schema keeps
MaxCache == 2

\* the key of the cache: the schema string itself
\* (faulty variant: the string without its brackets)
CacheKeyUnbracketed(sch) ==
    SelectSeq(sch.text, LAMBDA c : c \notin {"[", "]"})

CacheKey(sch) == sch.text

\* the entry of the cache for this key, if there is one; the cache is kept
\* in the order of use, the least recently used entry first
Memoized(memo, key) == {i \in DOMAIN memo : memo[i].key = key}

\* key in _memoized_schema
LRUContains(memo, key) == Memoized(memo, key) # {}

\* _memoized_schema[key]: the entry, which becomes the most recently used
LRUGet(memo, key) ==
    LET i == CHOOSE i \in Memoized(memo, key) : TRUE
    IN [entry |-> memo[i],
        memo |-> Append(SelectSeq(memo, LAMBDA e : e.key # key), memo[i])]

\* _memoized_schema[key] = dbname, owner: the entry is the most recently
\* used one, and the least recently used one goes when the cache is full
LRUSet(memo, key, db, own) ==
    LET added == Append(SelectSeq(memo, LAMBDA e : e.key # key),
                        [key |-> key, dbname |-> db, owner |-> own])
    IN IF Len(added) > MaxCache THEN Tail(added) ELSE added

\* _schema_elements(schema): the pair it returns and the cache it leaves
_schema_elements(sch, memo) ==
    IF sch.quote = <<TRUE>>
    THEN [dbname |-> NoneVal, owner |-> <<sch>>, memo |-> memo]
    ELSE IF LRUContains(memo, CacheKey(sch))
    THEN LET g == LRUGet(memo, CacheKey(sch))
         IN [dbname |-> g.entry.dbname, owner |-> g.entry.owner,
             memo |-> g.memo]
    ELSE LET r == ParseSchema(sch.text)
         IN [dbname |-> r.dbname, owner |-> r.owner,
             memo |-> LRUSet(memo, CacheKey(sch), r.dbname, r.owner)]

\* dialect.default_schema_name: "dbo" unless the server names another
default_schema_name == Str(<<"d", "b", "o">>)

\* _owner_plus_db(dialect, schema), with schema <<>> for None
\* (faulty variant: every schema string is parsed)
_owner_plus_dbParsesAll(sch, memo) ==
    IF sch = NoneVal \/ sch[1].text = <<>>
    THEN [dbname |-> NoneVal, owner |-> <<default_schema_name>>, memo |-> memo]
    ELSE _schema_elements(sch[1], memo)

_owner_plus_db(sch, memo) ==
    IF sch = NoneVal \/ sch[1].text = <<>>
    THEN [dbname |-> NoneVal, owner |-> <<default_schema_name>>, memo |-> memo]
    ELSE IF \E i \in DOMAIN sch[1].text : sch[1].text[i] = "."
    THEN _schema_elements(sch[1], memo)
    ELSE [dbname |-> NoneVal, owner |-> sch, memo |-> memo]

\* MSIdentifierPreparer._escape_identifier: value.replace("]", "]]")
RECURSIVE _escape_identifier(_)
_escape_identifier(value) ==
    IF value = <<>> THEN <<>>
    ELSE (IF Head(value) = "]" THEN <<"]", "]">> ELSE <<Head(value)>>)
             \o _escape_identifier(Tail(value))

\* whether the preparer quotes an identifier of its own accord: it has a
\* character other than a letter (none of the strings here is a reserved
\* word or has an upper case letter)
RequiresQuotes(value) ==
    \E i \in DOMAIN value : value[i] \in {".", "[", "]"}

\* IdentifierPreparer.quote_identifier, with "[" and "]" as the quotes
quote_identifier(value) == Bracketed(_escape_identifier(value))

\* IdentifierPreparer.quote: the quote flag of the identifier decides, and
\* without a flag the identifier is quoted when it requires it
quote(ident) ==
    IF ident.quote = NoneVal
    THEN IF RequiresQuotes(ident.text) THEN quote_identifier(ident.text)
         ELSE ident.text
    ELSE IF ident.quote[1] THEN quote_identifier(ident.text)
    ELSE ident.text

\* the text quote_schema builds from the pair
QuoteSchemaText(db, own) ==
    IF db # NoneVal /\ db[1].text # <<>>
    THEN quote(db[1]) \o <<".">> \o quote(own[1])
    ELSE IF own # NoneVal /\ own[1].text # <<>>
    THEN quote(own[1])
    ELSE <<>>

\* MSIdentifierPreparer.quote_schema(schema)
quote_schema(sch) ==
    /\ spc = "idle"
    /\ LET r == _schema_elements(sch, memoized_schema)
       IN /\ dbname' = r.dbname
          /\ owner' = r.owner
          /\ memoized_schema' = r.memo
          /\ rendered' = <<QuoteSchemaText(r.dbname, r.owner)>>
    /\ schema' = <<sch>>
    /\ spc' = "quote_schema"
    /\ UNCHANGED nonSchemaVars

\* a reflection method calls _owner_plus_db(dialect, schema)
Reflect(sch) ==
    /\ spc = "idle"
    /\ LET r == _owner_plus_db(sch, memoized_schema)
       IN /\ dbname' = r.dbname
          /\ owner' = r.owner
          /\ memoized_schema' = r.memo
    /\ rendered' = NoneVal
    /\ schema' = sch
    /\ spc' = "_owner_plus_db"
    /\ UNCHANGED nonSchemaVars

\* the process ends; the next one starts with an empty _memoized_schema
Restart ==
    /\ spc # "idle"
    /\ schema' = NoneVal
    /\ spc' = "idle"
    /\ dbname' = NoneVal
    /\ owner' = NoneVal
    /\ rendered' = NoneVal
    /\ memoized_schema' = <<>>
    /\ UNCHANGED nonSchemaVars

InitSchema ==
    ExecIdle /\ PageIdle /\ DialectIdle /\ SchemaIdle /\ AliasIdle /\ CacheIdle
    /\ ConnIdle

\* (a call starts only when none is under way: the arguments are drawn then)
NextSchema ==
    \/ /\ spc = "idle"
       /\ \E sch \in SchemaArgs \ {NoneVal} : quote_schema(sch[1])
    \/ /\ spc = "idle"
       /\ \E sch \in SchemaArgs : Reflect(sch)
    \/ Restart

SpecSchema == InitSchema /\ [][NextSchema]_vars

(***************************************************************************)
(* MSSQLCompiler in legacy schema mode                                     *)
(***************************************************************************)
\* the tables: two with a schema, one without (<<>> is None)
Tables ==
    { [name |-> "account", schema |-> <<"customer_schema">>],
      [name |-> "invoice", schema |-> <<"customer_schema">>],
      [name |-> "local", schema |-> NoneVal] }

\* an alias of a table: anon is 0 for the alias the statement's author
\* made, and n for the n-th anonymous alias the compiler made
Alias(table, n) == [element |-> table, anon |-> n]

\* what a FROM list holds: a table, or an alias a table was given
FromElements ==
    [node : {"table"}, table : Tables]
        \cup [node : {"alias"}, table : Tables]

\* a column and whether it is rendered inside a subquery of the statement
Columns == [table : Tables, subquery : BOOLEAN]

\* the most columns a statement of the model refers to
MaxColumns == 2

ColumnLists ==
    UNION { [1 .. n -> Columns] : n \in 1 .. MaxColumns }

\* the statements: SELECT, UPDATE and DELETE of a table, with the further
\* FROM element and the columns the statement refers to; the columns are
\* those of tables the statement has in its FROM list
AliasStatements ==
    { s \in [kind : {"select", "update", "delete"},
             table : Tables,
             extra_froms : {<<>>} \cup { <<e>> : e \in FromElements },
             columns : ColumnLists] :
        \A i \in 1 .. Len(s.columns) :
            \/ s.columns[i].table = s.table
            \/ \E j \in 1 .. Len(s.extra_froms) :
                  /\ s.extra_froms[j].node = "table"
                  /\ s.extra_froms[j].table = s.columns[i].table }

\* one rendered reference to a table: where it stands, and the alias it is
\* rendered through (<<>>: the table is rendered under its own name)
Ref(pos, table, alias) == [pos |-> pos, table |-> table, alias |-> alias]

\* MSSQLCompiler._schema_aliased_table: the alias it returns (<<>> is
\* None), and tablealiases and the alias() calls afterwards
_schema_aliased_table(table, aliases, calls) ==
    IF table.schema # NoneVal
    THEN IF \E x \in aliases : x.element = table
         THEN [alias |-> <<CHOOSE x \in aliases : x.element = table>>,
               aliases |-> aliases, calls |-> calls]
         ELSE LET a == Alias(table, Len(calls) + 1)
              IN [alias |-> <<a>>, aliases |-> aliases \cup {a},
                  calls |-> Append(calls, table)]
    ELSE [alias |-> NoneVal, aliases |-> aliases, calls |-> calls]

\* SQLCompiler.visit_table: the table under its own name
super_visit_table(table, pos, aliases, calls) ==
    [refs |-> <<Ref(pos, table, NoneVal)>>, aliases |-> aliases,
     calls |-> calls]

\* MSSQLCompiler.visit_alias, with SQLCompiler.visit_alias: the element is
\* rendered with mssql_aliased set to it, which makes visit_table render it
\* under its own name, followed by AS and the name of the alias
visit_alias(alias, pos, legacy, aliases, calls) ==
    LET inner == super_visit_table(alias.element, "alias_target", aliases,
                                   calls)
    IN [refs |-> inner.refs \o <<Ref(pos, alias.element, <<alias>>)>>,
        aliases |-> aliases, calls |-> calls]

\* MSSQLCompiler.visit_table
visit_table(table, mssql_aliased, iscrud, pos, legacy, aliases, calls) ==
    IF ~legacy \/ mssql_aliased = <<table>> \/ iscrud
    THEN super_visit_table(table, pos, aliases, calls)
    ELSE LET r == _schema_aliased_table(table, aliases, calls)
         IN IF r.alias # NoneVal
            THEN visit_alias(r.alias[1], pos, legacy, r.aliases, r.calls)
            ELSE super_visit_table(table, pos, aliases, calls)

\* MSSQLCompiler.visit_column (in_update, in_delete: self.isupdate and
\* self.isdelete of the compiler; column.subquery: self.is_subquery())
visit_column(column, in_update, in_delete, legacy, aliases, calls) ==
    IF /\ legacy
       /\ \/ (~in_update /\ ~in_delete)
          \/ column.subquery
    THEN LET t == _schema_aliased_table(column.table, aliases, calls)
         IN [refs |-> <<Ref("column", column.table, t.alias)>>,
             aliases |-> t.aliases, calls |-> t.calls]
    ELSE [refs |-> <<Ref("column", column.table, NoneVal)>>,
          aliases |-> aliases, calls |-> calls]

\* the elements the compiler visits, in order
ColumnItems(s) ==
    [i \in 1 .. Len(s.columns) |-> [op |-> "column", column |-> s.columns[i]]]
FromItems(froms) ==
    [i \in 1 .. Len(froms) |-> [op |-> "from", element |-> froms[i]]]

\* MSSQLCompiler.update_from_clause: the table of the UPDATE and the extra
\* FROM elements, each rendered as a FROM element
update_from_clause(from_table, extra_froms) ==
    FromItems(<<[node |-> "table", table |-> from_table]>> \o extra_froms)

\* MSSQLCompiler.delete_table_clause: the table of the DELETE, rendered
\* with iscrud
delete_table_clause(from_table) == <<[op |-> "crud", table |-> from_table]>>

\* MSSQLCompiler.delete_extra_from_clause
delete_extra_from_clause(from_table, extra_froms) ==
    FromItems(<<[node |-> "table", table |-> from_table]>> \o extra_froms)

\* SQLCompiler.visit_select, visit_update and visit_delete: the clauses of
\* the statement in the order they are rendered
Plan(s) ==
    CASE s.kind = "select" ->
             ColumnItems(s)
                 \o FromItems(<<[node |-> "table", table |-> s.table]>>
                              \o s.extra_froms)
      [] s.kind = "update" ->
             <<[op |-> "crud", table |-> s.table]>>
                 \o (IF s.extra_froms # <<>>
                     THEN update_from_clause(s.table, s.extra_froms)
                     ELSE <<>>)
                 \o ColumnItems(s)
      [] s.kind = "delete" ->
             delete_table_clause(s.table)
                 \o (IF s.extra_froms # <<>>
                     THEN delete_extra_from_clause(s.table, s.extra_froms)
                     ELSE <<>>)
                 \o ColumnItems(s)

\* a compile starts: a new compiler, of a dialect made with
\* legacy_schema_aliasing = legacy, is given the statement
CompileStatement(s, legacy) ==
    /\ apc = "off"
    /\ astmt' = s
    /\ legacy_schema_aliasing' = legacy
    /\ apc' = "compile"
    /\ todo' = Plan(s)
    /\ tablealiases' = {}
    /\ alias_calls' = <<>>
    /\ out' = <<>>
    /\ UNCHANGED nonAliasVars

\* what a visit leaves behind
Visited(r) ==
    /\ out' = out \o r.refs
    /\ tablealiases' = r.aliases
    /\ alias_calls' = r.calls
    /\ todo' = Tail(todo)
    /\ apc' = IF Len(todo) = 1 THEN "done" ELSE "compile"
    /\ UNCHANGED <<astmt, legacy_schema_aliasing, nonAliasVars>>

\* the compiler visits a column
VisitColumn ==
    /\ apc = "compile"
    /\ Head(todo).op = "column"
    /\ Visited(visit_column(Head(todo).column, astmt.kind = "update",
                            astmt.kind = "delete", legacy_schema_aliasing,
                            tablealiases, alias_calls))

\* the compiler visits an element of a FROM list (asfrom=True)
VisitFrom ==
    /\ apc = "compile"
    /\ Head(todo).op = "from"
    /\ LET e == Head(todo).element
       IN IF e.node = "alias"
          THEN Visited(visit_alias(Alias(e.table, 0), "from",
                                   legacy_schema_aliasing, tablealiases,
                                   alias_calls))
          ELSE Visited(visit_table(e.table, NoneVal, FALSE, "from",
                                   legacy_schema_aliasing, tablealiases,
                                   alias_calls))

\* the compiler visits the table of an UPDATE or DELETE (iscrud=True)
VisitCrud ==
    /\ apc = "compile"
    /\ Head(todo).op = "crud"
    /\ Visited(visit_table(Head(todo).table, NoneVal, TRUE, "crud",
                           legacy_schema_aliasing, tablealiases,
                           alias_calls))

\* the compile is over and the compiler is dropped
CompileDone ==
    /\ apc = "done"
    /\ astmt' = NoneVal
    /\ legacy_schema_aliasing' = FALSE
    /\ apc' = "off"
    /\ todo' = <<>>
    /\ tablealiases' = {}
    /\ alias_calls' = <<>>
    /\ out' = <<>>
    /\ UNCHANGED nonAliasVars

InitAlias ==
    ExecIdle /\ PageIdle /\ DialectIdle /\ SchemaIdle /\ AliasIdle /\ CacheIdle
    /\ ConnIdle

NextAlias ==
    \/ /\ apc = "off"
       /\ \E s \in AliasStatements, legacy \in BOOLEAN :
              CompileStatement(s, legacy)
    \/ VisitColumn
    \/ VisitFrom
    \/ VisitCrud
    \/ CompileDone

SpecAlias == InitAlias /\ [][NextAlias]_vars

(***************************************************************************)
(* _schema_elements called by several threads on the one _memoized_schema  *)
(***************************************************************************)
\* the schema strings the threads resolve, more of them than the cache
\* keeps: "a", "a.a", "[a.a]" and "[a].a"
CacheTexts ==
    { <<"a">>, <<"a", ".", "a">>, <<"[", "a", ".", "a", "]">>,
      <<"[", "a", "]", ".", "a">> }

\* the arguments: plain strings, and "a.a" as a quoted_name with a quote
\* flag of True
CacheArgs ==
    {Str(s) : s \in CacheTexts} \cup {Name(<<"a", ".", "a">>, <<TRUE>>)}

\* the thread enters _schema_elements(sch): a quoted_name with a true quote
\* flag is returned at once, anything else goes on to the cache
Call(t, sch) ==
    /\ callers[t].pc = "idle"
    /\ callers' = [callers EXCEPT ![t] =
           IF sch.quote = <<TRUE>>
           THEN [pc |-> "returned", arg |-> <<sch>>,
                 result |-> <<[dbname |-> NoneVal, owner |-> <<sch>>]>>,
                 hit |-> FALSE]
           ELSE [pc |-> "test", arg |-> <<sch>>, result |-> NoneVal,
                 hit |-> FALSE]]
    /\ UNCHANGED <<schemaVars, nonCacheVars>>

\* if schema in _memoized_schema
Test(t) ==
    /\ callers[t].pc = "test"
    /\ callers' = [callers EXCEPT ![t].pc =
           IF LRUContains(memoized_schema, CacheKey(callers[t].arg[1]))
           THEN "read" ELSE "store"]
    /\ UNCHANGED <<schemaVars, nonCacheVars>>

\* return _memoized_schema[schema]: KeyError when the entry is not there
Read(t) ==
    /\ callers[t].pc = "read"
    /\ LET key == CacheKey(callers[t].arg[1])
       IN IF LRUContains(memoized_schema, key)
          THEN LET g == LRUGet(memoized_schema, key)
               IN /\ callers' = [callers EXCEPT
                        ![t].pc = "returned",
                        ![t].hit = TRUE,
                        ![t].result = <<[dbname |-> g.entry.dbname,
                                         owner |-> g.entry.owner]>>]
                  /\ memoized_schema' = g.memo
          ELSE /\ callers' = [callers EXCEPT ![t].pc = "KeyError"]
               /\ UNCHANGED memoized_schema
    /\ UNCHANGED <<schema, spc, dbname, owner, rendered, nonCacheVars>>

\* the string is parsed, the pair is put into the cache and returned
Store(t) ==
    /\ callers[t].pc = "store"
    /\ LET sch == callers[t].arg[1]
           r == ParseSchema(sch.text)
       IN /\ memoized_schema' =
                 LRUSet(memoized_schema, CacheKey(sch), r.dbname, r.owner)
          /\ callers' = [callers EXCEPT
                 ![t].pc = "returned",
                 ![t].result = <<[dbname |-> r.dbname, owner |-> r.owner]>>]
    /\ UNCHANGED <<schema, spc, dbname, owner, rendered, nonCacheVars>>

\* the caller has the pair or the error, and the thread is free again
Leave(t) ==
    /\ callers[t].pc \in {"returned", "KeyError"}
    /\ callers' = [callers EXCEPT ![t] = NoCall]
    /\ UNCHANGED <<schemaVars, nonCacheVars>>

InitCache ==
    ExecIdle /\ PageIdle /\ DialectIdle /\ SchemaIdle /\ AliasIdle /\ CacheIdle
    /\ ConnIdle

NextCache ==
    \E t \in Threads :
        \/ \E sch \in CacheArgs : Call(t, sch)
        \/ Test(t)
        \/ Read(t)
        \/ Store(t)
        \/ Leave(t)

SpecCache == InitCache /\ [][NextCache]_vars

(***************************************************************************)
(* The dialect on a DBAPI connection: set_isolation_level,                 *)
(* get_isolation_level, _switch_db                                         *)
(***************************************************************************)
\* an isolation level is written as its words and the characters between
\* them: "READ_COMMITTED" is <<"READ", "_", "COMMITTED">>

\* MSDialect._isolation_lookup
_isolation_lookup ==
    { <<"SERIALIZABLE">>, <<"READ", " ", "UNCOMMITTED">>,
      <<"READ", " ", "COMMITTED">>, <<"REPEATABLE", " ", "READ">>,
      <<"SNAPSHOT">> }

\* level.replace("_", " ")
replace(level) ==
    [i \in DOMAIN level |-> IF level[i] = "_" THEN " " ELSE level[i]]

\* val.upper()
upper(val) ==
    [i \in DOMAIN val |->
        CASE val[i] = "read" -> "READ"
          [] val[i] = "committed" -> "COMMITTED"
          [] OTHER -> val[i]]

\* the levels callers pass: the recognized ones, written with " " or "_",
\* the documented AUTOCOMMIT of the pyodbc and pymssql dialects, and
\* strings that are no level
Levels ==
    _isolation_lookup
        \cup { <<"READ", "_", "UNCOMMITTED">>, <<"READ", "_", "COMMITTED">>,
               <<"REPEATABLE", "_", "READ">>, <<"AUTOCOMMIT">>,
               <<"read", " ", "committed">>, <<"READ", "-", "COMMITTED">>,
               <<"BOGUS", "_", "LEVEL">> }

\* what happens on the connection
Cursor(n) == [ev |-> "cursor", id |-> n, arg |-> <<>>, ok |-> TRUE]
Execute(n, sql, ok) == [ev |-> "execute", id |-> n, arg |-> sql, ok |-> ok]
Close(n) == [ev |-> "close", id |-> n, arg |-> <<>>, ok |-> TRUE]
Commit == [ev |-> "commit", id |-> 0, arg |-> <<>>, ok |-> TRUE]
Fn(db, ok) == [ev |-> "fn", id |-> 0, arg |-> <<db>>, ok |-> ok]

\* what a call returns or raises
Return(value) ==
    [kind |-> "return", exc |-> "", value |-> value, valid |-> {}]
Raise(exc, value, valid) ==
    [kind |-> "raise", exc |-> exc, value |-> value, valid |-> valid]

\* the call with its arguments and locals
CallOf(op, level, version, db, current) ==
    [op |-> op, level |-> level, server_version_info |-> version,
     dbname |-> db, current_db |-> current]

\* the test of set_isolation_level on the level with "_" replaced
\* (faulty variant: no test)
IsolationLevelAny(level) == TRUE

IsolationLevelValid(level) == level \in _isolation_lookup

\* MSDialect.set_isolation_level(connection, level); ok is the outcome of
\* the SET TRANSACTION ISOLATION LEVEL statement
set_isolation_level(level, ok) ==
    /\ cpc = "idle"
    /\ cpc' = "set_isolation_level"
    /\ ccall' = CallOf("set_isolation_level", level, <<>>, NoneVal, NoneVal)
    /\ LET lv == replace(level)
           sql == <<"SET TRANSACTION ISOLATION LEVEL">> \o lv
       IN IF ~IsolationLevelValid(lv)
          THEN /\ cresult' = <<Raise("ArgumentError", lv, _isolation_lookup)>>
               /\ UNCHANGED <<clog, isolation_level>>
          ELSE IF ~ok
          THEN /\ clog' = <<Cursor(1), Execute(1, sql, FALSE)>>
               /\ cresult' = <<Raise("Error", <<>>, {})>>
               /\ UNCHANGED isolation_level
          ELSE /\ clog' = <<Cursor(1), Execute(1, sql, TRUE), Close(1)>>
                          \o (IF lv = <<"SNAPSHOT">> THEN <<Commit>>
                              ELSE <<>>)
               /\ isolation_level' = lv
               /\ cresult' = <<Return(<<>>)>>
    /\ UNCHANGED <<database, nonConnVars>>

\* the views get_isolation_level reads
views == <<"sys.dm_exec_sessions", "sys.dm_pdw_nodes_exec_sessions">>

\* how the query on a view may go: "value", a row with the level; "null", a
\* row with NULL; "no_row", fetchone() returns None; "Error", the driver
\* raises dbapi.Error
ViewOutcomes == {"value", "null", "no_row", "Error"}

\* one pass of the loop of get_isolation_level: a cursor, the query, and
\* the close of the finally clause
\* (faulty variant: the cursor is closed only when the query raised nothing)
TryViewNoFinally(n, view, outcome) ==
    <<Cursor(n), Execute(n, <<view>>, outcome # "Error")>>
        \o (IF outcome = "value" THEN <<Close(n)>> ELSE <<>>)

TryView(n, view, outcome) ==
    <<Cursor(n), Execute(n, <<view>>, outcome # "Error"), Close(n)>>

\* the loop over the views, from view n on
RECURSIVE ViewLoop(_, _, _, _)
ViewLoop(n, outcomes, reported, events) ==
    IF n > Len(views)
    THEN [events |-> events,
          result |-> Raise("NotImplementedError", <<>>, {})]
    ELSE LET ev == events \o TryView(n, views[n], outcomes[n])
         IN CASE outcomes[n] = "Error" ->
                     ViewLoop(n + 1, outcomes, reported, ev)
              [] outcomes[n] = "no_row" ->
                     [events |-> ev, result |-> Raise("TypeError", <<>>, {})]
              [] outcomes[n] = "null" ->
                     [events |-> ev,
                      result |-> Raise("AttributeError", <<>>, {})]
              [] outcomes[n] = "value" ->
                     [events |-> ev, result |-> Return(upper(reported))]

\* the server versions of the dialects that are asked for the level: not
\* probed yet, SQL Server 2000, 2005 and 2012
ConnVersions == {<<>>, <<8>>, <<9>>, <<11, 0>>}

\* MSDialect.get_isolation_level(connection)
get_isolation_level(version, outcomes) ==
    /\ cpc = "idle"
    /\ cpc' = "get_isolation_level"
    /\ ccall' = CallOf("get_isolation_level", <<>>, version, NoneVal, NoneVal)
    /\ IF TupleLess(version, MS_2005_VERSION)
       THEN /\ cresult' = <<Raise("NotImplementedError", <<>>, {})>>
            /\ clog' = <<>>
       ELSE LET r == ViewLoop(1, outcomes, isolation_level, <<>>)
            IN /\ cresult' = <<r.result>>
               /\ clog' = r.events
    /\ UNCHANGED <<isolation_level, database, nonConnVars>>

\* the databases of the server
Databases == {"master", "tempdb"}

\* the dbname _switch_db is given: None, "", or the name of a database
DbNames == {NoneVal, <<"">>} \cup { <<d>> : d \in Databases }

\* if dbname:
Truthy(db) == db # NoneVal /\ db # <<"">>

\* whether the finally clause of _switch_db sends "use <current_db>";
\* raised tells whether fn raised
\* (faulty variant: the database is restored after a return only)
RestoresOnReturnOnly(db, current, raised_) ==
    Truthy(db) /\ current # db /\ ~raised_

Restores(db, current, raised_) == Truthy(db) /\ current # db

\* _switch_db(dbname, connection, fn) up to the call of fn: the current
\* database is asked for and the connection is switched; qOk and useOk are
\* the outcomes of "select db_name()" and of "use <dbname>"
_switch_db(db, qOk, useOk) ==
    /\ cpc = "idle"
    /\ LET current == IF Truthy(db) /\ qOk THEN <<database>> ELSE NoneVal
           asked == IF Truthy(db)
                    THEN <<Execute(0, <<"select db_name()">>, qOk)>>
                    ELSE <<>>
           switches == Truthy(db) /\ qOk /\ current # db
           used == IF switches
                   THEN <<Execute(0, <<"use", db[1]>>, useOk)>>
                   ELSE <<>>
           failed == (Truthy(db) /\ ~qOk) \/ (switches /\ ~useOk)
       IN /\ (~Truthy(db) => qOk)
          /\ (~switches => useOk)
          /\ ccall' = CallOf("_switch_db", <<>>, <<>>, db, current)
          /\ clog' = asked \o used
          /\ database' = IF switches /\ useOk THEN db[1] ELSE database
          /\ cpc' = IF failed THEN "_switch_db" ELSE "fn"
          /\ cresult' = IF failed THEN <<Raise("Error", <<>>, {})>>
                         ELSE NoneVal
    /\ UNCHANGED <<isolation_level, nonConnVars>>

\* fn runs and returns or raises, and the finally clause of _switch_db
\* restores the database; restoreOk is the outcome of "use <current_db>"
_switch_db_finally(fnOk, restoreOk) ==
    /\ cpc = "fn"
    /\ LET restores == Restores(ccall.dbname, ccall.current_db, ~fnOk)
           used == IF restores
                   THEN <<Execute(0, <<"use", ccall.current_db[1]>>,
                                  restoreOk)>>
                   ELSE <<>>
       IN /\ (~restores => restoreOk)
          /\ clog' = clog \o <<Fn(database, fnOk)>> \o used
          /\ database' = IF restores /\ restoreOk THEN ccall.current_db[1]
                          ELSE database
          /\ cresult' = IF fnOk /\ restoreOk THEN <<Return(<<>>)>>
                         ELSE <<Raise("Error", <<>>, {})>>
    /\ cpc' = "_switch_db"
    /\ UNCHANGED <<ccall, isolation_level, nonConnVars>>

\* the caller has the result; the connection stays as the call left it
ConnRelease ==
    /\ cpc \in {"set_isolation_level", "get_isolation_level", "_switch_db"}
    /\ cpc' = "idle"
    /\ ccall' = NoneVal
    /\ clog' = <<>>
    /\ cresult' = NoneVal
    /\ UNCHANGED <<isolation_level, database, nonConnVars>>

InitConn ==
    ExecIdle /\ PageIdle /\ DialectIdle /\ SchemaIdle /\ AliasIdle /\ CacheIdle
    /\ ConnIdle

NextConn ==
    \/ \E level \in Levels, ok \in BOOLEAN : set_isolation_level(level, ok)
    \/ \E version \in ConnVersions,
          outcomes \in [1 .. Len(views) -> ViewOutcomes] :
              get_isolation_level(version, outcomes)
    \/ \E db \in DbNames, qOk \in BOOLEAN, useOk \in BOOLEAN :
           _switch_db(db, qOk, useOk)
    \/ \E fnOk \in BOOLEAN, restoreOk \in BOOLEAN :
           _switch_db_finally(fnOk, restoreOk)
    \/ ConnRelease

SpecConn == InitConn /\ [][NextConn]_vars

(***************************************************************************)
(* Properties of the execution context (checked under SpecExec).           *)
(***************************************************************************)
\* positions in the log of the statements with this text
Idx(sql) == {i \in DOMAIN log : log[i].sql = sql}
Count(sql) == Cardinality(Idx(sql))
LastrowIdx == Idx(SCOPE_IDENTITY) \cup Idx(AT_IDENTITY)
SqlOf(l) == [i \in DOMAIN l |-> l[i].sql]
AllOk(l) == \A i \in DOMAIN l : l[i].ok
Dml == {"insert", "update", "delete"}

\* a value for the identity column is explicitly supplied
Supplied(s) ==
    \/ s.key_in_params0
    \/ "id_col" \in s.dict_keys
    \/ "id_key" \in s.dict_keys

\* an INSERT into a table with a non-sequence autoincrement column that
\* supplies the value of that column
ExplicitIdentityInsert(s) ==
    s.kind = "insert" /\ s.idcol = "identity" /\ Supplied(s)

PreExecRan == pc \notin {"free", "idle"}
PostExecRan == (pc = "closed" /\ raised = "none") \/ raised = "post"
MainFailed == \E i \in Idx(MAIN) : ~log[i].ok
EnabledMode == \E i \in Idx(SET_ON) : log[i].ok

\* C1: once pre_exec has run, SET IDENTITY_INSERT ON has been sent exactly
\* when the statement is an INSERT, the table has an autoincrement column
\* whose default is no Sequence, and a value for it is supplied (key in the
\* first parameter set, or column or key in the values dictionary); it is
\* then the first statement, before the main one.  Otherwise none is sent.
C1_EnableIffExplicitIdentity ==
    PreExecRan =>
        /\ Count(SET_ON) = (IF ExplicitIdentityInsert(stmt) THEN 1 ELSE 0)
        /\ (ExplicitIdentityInsert(stmt) =>
               /\ log[1].sql = SET_ON
               /\ \A i \in Idx(MAIN) : i > 1)

C1_Witness ==
    /\ pc = "executed"
    /\ stmt.dict_keys = {"id_col", "x"}
    /\ ~stmt.key_in_params0
    /\ SqlOf(log) = <<SET_ON, MAIN>>

\* C2: a successful invocation of an INSERT that supplies the identity value
\* sends exactly three statements, each completed before the next starts:
\* SET IDENTITY_INSERT ON, the main INSERT, SET IDENTITY_INSERT OFF; no
\* last-id retrieval statement is among them.
C2_ThreeStatementsInOrder ==
    (pc = "closed" /\ raised = "none" /\ ExplicitIdentityInsert(stmt)) =>
        /\ SqlOf(log) = <<SET_ON, MAIN, SET_OFF>>
        /\ AllOk(log)
        /\ LastrowIdx = {}

C2_Witness ==
    /\ pc = "closed"
    /\ raised = "none"
    /\ ExplicitIdentityInsert(stmt)
    /\ ~stmt.inline /\ ~stmt.returning /\ ~stmt.executemany
    /\ Len(log) = 3

\* C3 as stated: in every invocation in which SET IDENTITY_INSERT ON was
\* sent, exactly one SET IDENTITY_INSERT OFF has been sent when it ends.
C3_ExactlyOneDisable ==
    (pc = "closed" /\ Count(SET_ON) >= 1) => Count(SET_OFF) = 1

\* C3, amended: in every invocation in which SET IDENTITY_INSERT ON was
\* sent, SET IDENTITY_INSERT OFF has been sent after it when the invocation
\* ends, on every exit path; exactly once, except that when the OFF sent by
\* post_exec itself fails, handle_dbapi_exception sends it a second time.
C3_DisableOnEveryExit ==
    (pc = "closed" /\ Count(SET_ON) >= 1) =>
        /\ Count(SET_OFF) \in {1, 2}
        /\ \A i \in Idx(SET_OFF) : \A j \in Idx(SET_ON) : j < i
        /\ (Count(SET_OFF) = 2 =>
               /\ SqlOf(log) = <<SET_ON, MAIN, SET_OFF, SET_OFF>>
               /\ log[2].ok /\ ~log[3].ok
               /\ raised = "post")

C3_Witness ==
    /\ pc = "closed"
    /\ raised = "main"
    /\ SqlOf(log) = <<SET_ON, MAIN, SET_OFF>>
    /\ log[1].ok /\ ~log[2].ok

\* C4 as stated: when an invocation that enabled the mode ends, normally,
\* by a failure or by the caller aborting, the mode is off again.
C4_NeverLeftEnabled ==
    (pc = "closed" /\ EnabledMode) => ~identity_insert_on

\* C4, amended: when an invocation that enabled the mode ends (normally, by
\* a failure, or by the caller aborting), the last statement sent is a
\* SET IDENTITY_INSERT OFF, and the mode is off again unless that last
\* disabling statement itself failed (a failure that handle_dbapi_exception
\* suppresses), in which case the mode is still on.
C4_OffUnlessCleanupFails ==
    (pc = "closed" /\ EnabledMode) =>
        /\ log[Len(log)].sql = SET_OFF
        /\ identity_insert_on = ~log[Len(log)].ok

C4_Witness ==
    /\ pc = "closed"
    /\ raised = "abort"
    /\ EnabledMode
    /\ Count(SET_OFF) = 1
    /\ ~identity_insert_on

\* C5: when the main statement fails, the caller receives the error of the
\* main statement, whatever the outcome of the cleanup; if the mode was
\* enabled, handle_dbapi_exception has sent exactly one
\* SET IDENTITY_INSERT OFF, as the last statement; if not, it sent nothing.
C5_CleanupBestEffort ==
    (pc = "closed" /\ MainFailed) =>
        /\ raised = "main"
        /\ (enable_identity_insert =>
               /\ Count(SET_OFF) = 1
               /\ log[Len(log)].sql = SET_OFF
               /\ log[Len(log) - 1].sql = MAIN)
        /\ (~enable_identity_insert =>
               /\ log[Len(log)].sql = MAIN
               /\ Count(SET_OFF) = 0)

C5_Witness ==
    /\ pc = "closed"
    /\ MainFailed
    /\ enable_identity_insert
    /\ ~log[Len(log)].ok
    /\ log[Len(log)].sql = SET_OFF
    /\ raised = "main"

\* what holds of every last-id retrieval statement that is sent: the
\* statement is a single-row INSERT without RETURNING that did not enable
\* identity insert; there is one such statement, with the text the dialect's
\* use_scope_identity selects, sent after the main statement has executed;
\* and when post_exec returns, its value is the generated key
LastrowidWellFormed ==
    /\ ~(enable_identity_insert /\ select_lastrowid)
    /\ (LastrowIdx # {} =>
           /\ stmt.kind = "insert"
           /\ ~stmt.executemany
           /\ ~stmt.returning
           /\ Count(SET_ON) = 0
           /\ Cardinality(LastrowIdx) = 1
           /\ \A i \in LastrowIdx :
                 /\ log[i].sql = (IF stmt.use_scope_identity
                                  THEN "SELECT scope_identity() AS lastrowid"
                                  ELSE "SELECT @@identity AS lastrowid")
                 /\ i = 2 /\ log[1].sql = MAIN /\ log[1].ok
                 /\ ((pc = "closed" /\ raised = "none") =>
                        lastrowid = log[i].result /\ lastrowid # NoneVal))
    /\ (lastrowid # NoneVal => LastrowIdx # {})

\* the conditions the claim names for the retrieval
SingleRowPlainInsert(s) ==
    s.kind = "insert" /\ ~s.executemany /\ ~s.returning

\* C6 as stated: a last-id retrieval statement is sent only for a single-row
\* INSERT without RETURNING that did not enable identity insert, and in
\* that case exactly one is sent by post_exec.
C6_FetchForEverySingleRowInsert ==
    /\ LastrowidWellFormed
    /\ (PostExecRan /\ SingleRowPlainInsert(stmt) /\ Count(SET_ON) = 0) =>
           Cardinality(LastrowIdx) = 1

\* C6, amended: a last-id retrieval statement is sent only for a single-row
\* INSERT without RETURNING that did not enable identity insert; post_exec
\* sends it, exactly once, exactly when in addition the table has an
\* autoincrement column whose default is no Sequence and the INSERT is not
\* compiled inline.  It follows the main statement, its value becomes the
\* generated key, and it never occurs together with identity insert.
C6_FetchOnlyForIdentityTables ==
    /\ LastrowidWellFormed
    /\ PostExecRan =>
           (Cardinality(LastrowIdx) = 1) =
               (/\ SingleRowPlainInsert(stmt)
                /\ Count(SET_ON) = 0
                /\ stmt.idcol = "identity"
                /\ ~stmt.inline)

C6_Witness ==
    /\ pc = "closed"
    /\ raised = "none"
    /\ SqlOf(log) = <<MAIN, AT_IDENTITY>>
    /\ lastrowid = <<MaxId>>

\* C7: for INSERT, UPDATE and DELETE, once post_exec has run the row count
\* the context reports is the one the cursor showed right after the main
\* statement, whatever statements post_exec or the handler sent afterwards
\* on the same cursor.
C7_RowcountOfMainStatement ==
    (PostExecRan /\ stmt.kind \in Dml) => rowcount = main_rowcount

C7_Witness ==
    /\ pc = "closed"
    /\ raised = "none"
    /\ stmt.kind = "insert"
    /\ LastrowIdx # {}
    /\ main_rowcount = 1
    /\ cursor_rowcount = -1
    /\ rowcount = 1

(***************************************************************************)
(* Properties of the LIMIT / OFFSET rendering (checked under SpecPage).    *)
(***************************************************************************)
\* the statement asks for pagination: a LIMIT is present, or the OFFSET is
\* non-zero or not a simple integer
Paginated(select) ==
    \/ select.limit.kind # "none"
    \/ select.offset.kind = "expr"
    \/ (select.offset.kind = "simple" /\ select.offset.value # 0)

Rendering == ppc \in {"render", "done"}

\* C8: while a SELECT that has an ORDER BY is rendered, at most one of TOP,
\* OFFSET/FETCH and the ROW_NUMBER rewrite is applied, whatever the
\* offset-fetch support and the shapes of LIMIT and OFFSET; when the render
\* call is over, exactly one has been applied if a LIMIT is present or the
\* OFFSET is non-zero or non-simple, and none otherwise.
C8_OneStrategy ==
    (Rendering /\ sel.order_by) =>
        /\ Len(applied) <= 1
        /\ (ppc = "done" =>
               /\ ~compile_error
               /\ Len(applied) = (IF Paginated(sel) THEN 1 ELSE 0))

C8_Witness ==
    /\ ppc = "done"
    /\ sel.order_by
    /\ ~supports_offset_fetch
    /\ sel.limit = [kind |-> "simple", value |-> 2]
    /\ sel.offset = [kind |-> "simple", value |-> 1]
    /\ applied = <<"ROW_NUMBER">>

\* the statement translate_select_structure returned was rewritten
Rewrote == rewritten # NoneVal /\ rewritten[1].inner # <<>>

\* C9: without OFFSET/FETCH support, for a SELECT with ORDER BY, LIMIT and
\* OFFSET, the rewrite applies unless LIMIT is a simple integer and OFFSET
\* a simple 0, and the outer query then filters the row number by exactly
\* mssql_rn > offset and mssql_rn <= limit + offset.
C9_UpperBoundIsLimitPlusOffset ==
    (/\ Rendering /\ rewritten # NoneVal
     /\ ~supports_offset_fetch
     /\ sel.order_by
     /\ sel.limit.kind # "none"
     /\ sel.offset.kind # "none") =>
        IF sel.limit.kind = "simple" /\ sel.offset = [kind |-> "simple", value |-> 0]
        THEN ~Rewrote
        ELSE /\ Rewrote
             /\ rewritten[1].where =
                    <<Crit(">", sel.offset.value),
                      Crit("<=", sel.limit.value + sel.offset.value)>>

C9_Witness ==
    /\ ppc = "done"
    /\ ~supports_offset_fetch
    /\ sel.limit = [kind |-> "simple", value |-> 5]
    /\ sel.offset = [kind |-> "simple", value |-> 10]
    /\ Rewrote
    /\ rewritten[1].where = <<Crit(">", 10), Crit("<=", 15)>>
    /\ ~rewritten[1].order_by

\* C10: without OFFSET/FETCH support, for a SELECT with ORDER BY, an
\* OFFSET greater than 0 and no LIMIT, the statement is rewritten and the
\* only criterion on the row number is mssql_rn > offset: there is no
\* upper bound.
C10_OffsetOnlyHasNoUpperBound ==
    (/\ Rendering /\ rewritten # NoneVal
     /\ ~supports_offset_fetch
     /\ sel.order_by
     /\ sel.limit.kind = "none"
     /\ sel.offset.kind # "none" /\ sel.offset.value > 0) =>
        /\ Rewrote
        /\ rewritten[1].where = <<Crit(">", sel.offset.value)>>

C10_Witness ==
    /\ ppc = "done"
    /\ ~supports_offset_fetch
    /\ sel.limit = NoClause
    /\ sel.offset = [kind |-> "simple", value |-> 10]
    /\ Rewrote
    /\ rewritten[1].where = <<Crit(">", 10)>>

\* C11: a SELECT whose LIMIT is a simple integer and whose OFFSET is absent
\* or a simple 0 is rendered, with or without offset-fetch support and with
\* or without ORDER BY, without CompileError and with TOP as the only
\* strategy: one TOP n whose value is the LIMIT, processed with
\* literal_execute (a literal, not a bound parameter), no ROW_NUMBER rewrite
\* and no OFFSET/FETCH clause.
C11_TopLiteralOnly ==
    (/\ Rendering
     /\ sel.limit.kind = "simple"
     /\ (sel.offset.kind = "none"
            \/ sel.offset = [kind |-> "simple", value |-> 0])) =>
        /\ ~compile_error
        /\ ~Rewrote
        /\ applied \in {<<>>, <<"TOP">>}
        /\ (applied = <<"TOP">>) =
              (precolumns = <<[value |-> sel.limit.value,
                               literal_execute |-> TRUE]>>)
        /\ (applied = <<>>) = (precolumns = NoneVal)
        /\ (ppc = "done" => applied = <<"TOP">>)

C11_Witness ==
    /\ ppc = "done"
    /\ supports_offset_fetch
    /\ ~sel.order_by
    /\ sel.limit = [kind |-> "simple", value |-> 5]
    /\ sel.offset = [kind |-> "simple", value |-> 0]
    /\ applied = <<"TOP">>
    /\ precolumns = <<[value |-> 5, literal_execute |-> TRUE]>>

\* the render call is over and ran with native OFFSET/FETCH support on a
\* SELECT without ORDER BY
DoneNativeNoOrderBy ==
    /\ ppc = "done"
    /\ supports_offset_fetch
    /\ ~sel.order_by

RowNumberBranch ==
    /\ ~supports_offset_fetch
    /\ \/ sel.limit.kind = "expr"
       \/ sel.offset.kind = "expr"
       \/ (sel.offset.kind = "simple" /\ sel.offset.value # 0)

\* C13: when the ROW_NUMBER branch is selected for a SELECT without ORDER
\* BY, the render call ends in translate_select_structure with
\* CompileError: no statement is returned, nothing of a rewrite is kept and
\* no pagination is rendered.
C13_RewriteNeedsOrderBy ==
    (Rendering /\ RowNumberBranch /\ ~sel.order_by) =>
        /\ ~Rewrote
        /\ rewritten = NoneVal
        /\ applied = <<>>
        /\ precolumns = NoneVal
        /\ \/ ppc = "render" /\ stack = <<Frame(sel, "translate")>>
           \/ ppc = "done" /\ compile_error /\ stack = <<>>

C13_Witness ==
    /\ ppc = "done"
    /\ RowNumberBranch
    /\ ~sel.order_by
    /\ sel.limit = NoClause
    /\ sel.offset = [kind |-> "simple", value |-> 10]
    /\ compile_error
    /\ rewritten = NoneVal

(***************************************************************************)
(* Properties of the dialect attributes (checked under SpecDialect).       *)
(***************************************************************************)
\* the SELECT has an OFFSET that is not a plain 0
OffsetPaging(select) ==
    \/ select.offset.kind = "expr"
    \/ (select.offset.kind = "simple" /\ select.offset.value # 0)

\* C14: as long as initialize has not run, server_version_info is empty and
\* _supports_offset_fetch is false, and a SELECT with an OFFSET other than a
\* plain 0 compiled meanwhile takes the ROW_NUMBER branch (the rewrite with
\* ORDER BY, CompileError without); once initialize has run,
\* _supports_offset_fetch is true exactly when the major version of
\* server_version_info is at least 11.
C14_OffsetFetchFollowsProbe ==
    /\ initialized = 0 =>
          /\ server_version_info = <<>>
          /\ ~supports_offset_fetch
          /\ (ppc = "done" /\ OffsetPaging(sel)) =>
                IF sel.order_by
                THEN Rewrote /\ applied = <<"ROW_NUMBER">>
                ELSE compile_error /\ applied = <<>>
    /\ initialized > 0 =>
          /\ server_version_info # <<>>
          /\ supports_offset_fetch = (server_version_info[1] >= 11)

C14_Witness ==
    /\ initialized = 1
    /\ server_version_info = <<11, 0>>
    /\ supports_offset_fetch
    /\ ppc = "done"
    /\ sel.offset = [kind |-> "simple", value |-> 10]
    /\ applied = <<"OFFSET_FETCH">>

\* C20: deprecate_large_types changes at most once. A value of True or
\* False, given by the caller or set before, is kept by every step; None
\* is kept by every step but initialize, which replaces it by whether the
\* server version it detected is at least that of SQL Server 2012; so it is
\* None only as long as initialize has not run.
C20_DeprecateLargeTypesSetOnce ==
    /\ [][/\ deprecate_large_types # NoneVal =>
               deprecate_large_types' = deprecate_large_types
          /\ deprecate_large_types' # deprecate_large_types =>
               /\ initialized' = initialized + 1
               /\ deprecate_large_types' =
                      <<~TupleLess(server_version_info', MS_2012_VERSION)>>
          /\ initialized' # initialized =>
               deprecate_large_types' # NoneVal]_vars
    /\ [](deprecate_large_types = NoneVal => initialized = 0)

C20_Witness ==
    /\ initialized >= 2
    /\ deprecate_large_types = <<FALSE>>
    /\ ~TupleLess(server_version_info, MS_2012_VERSION)
    /\ supports_offset_fetch

(***************************************************************************)
(* Properties of the schema resolver (checked under SpecSchema).           *)
(***************************************************************************)
\* _schema_elements has returned the pair for a plain schema string
Resolved == spc = "quote_schema" /\ schema[1].quote = NoneVal

NoBracket(s) == \A i \in DOMAIN s : s[i] \notin {"[", "]"}

\* a name that may stand between brackets: not empty, no bracket in it
IsName(s) == s # <<>> /\ NoBracket(s)

\* the brackets of s are balanced
RECURSIVE BalancedFrom(_, _, _)
BalancedFrom(s, i, depth) ==
    IF i > Len(s) THEN depth = 0
    ELSE IF s[i] = "[" THEN BalancedFrom(s, i + 1, depth + 1)
    ELSE IF s[i] = "]" THEN depth > 0 /\ BalancedFrom(s, i + 1, depth - 1)
    ELSE BalancedFrom(s, i + 1, depth)

Balanced(s) == BalancedFrom(s, 1, 0)

\* s is made of parts joined by ".", each part a non-empty name without
\* "." and brackets, or a non-empty name without brackets between "[" and
\* "]"; at position i, mode tells what has been read of the part
RECURSIVE WellFormedFrom(_, _, _)
WellFormedFrom(s, i, mode) ==
    IF i > Len(s) THEN mode \in {"bare", "closed"}
    ELSE LET c == s[i]
         IN CASE mode = "start" ->
                    IF c = "[" THEN WellFormedFrom(s, i + 1, "open")
                    ELSE c \notin {"]", "."} /\ WellFormedFrom(s, i + 1, "bare")
              [] mode = "bare" ->
                    IF c = "." THEN WellFormedFrom(s, i + 1, "start")
                    ELSE c \notin {"[", "]"} /\ WellFormedFrom(s, i + 1, "bare")
              [] mode = "open" ->
                    c \notin {"[", "]"} /\ WellFormedFrom(s, i + 1, "inside")
              [] mode = "inside" ->
                    IF c = "]" THEN WellFormedFrom(s, i + 1, "closed")
                    ELSE c # "[" /\ WellFormedFrom(s, i + 1, "inside")
              [] mode = "closed" ->
                    c = "." /\ WellFormedFrom(s, i + 1, "start")

WellFormed(s) == WellFormedFrom(s, 1, "start")

\* the positions of the "." of s that no "[" before them, not yet followed
\* by a "]", encloses
RECURSIVE UnbracketedDotsFrom(_, _, _)
UnbracketedDotsFrom(s, i, bracket) ==
    IF i > Len(s) THEN {}
    ELSE IF s[i] = "[" THEN UnbracketedDotsFrom(s, i + 1, TRUE)
    ELSE IF s[i] = "]" THEN UnbracketedDotsFrom(s, i + 1, FALSE)
    ELSE IF s[i] = "." /\ ~bracket
         THEN {i} \cup UnbracketedDotsFrom(s, i + 1, bracket)
    ELSE UnbracketedDotsFrom(s, i + 1, bracket)

UnbracketedDots(s) == UnbracketedDotsFrom(s, 1, FALSE)

\* a token without the pair of brackets around it, if it has one
Unbracket(s) ==
    IF Len(s) >= 2 /\ s[1] = "[" /\ s[Len(s)] = "]" THEN Inner(s) ELSE s

\* C15: for a schema string [X], with X a non-empty name without brackets
\* that may contain ".", _schema_elements returns no database and the owner
\* X; for [X].[Y], with X and Y such names, it returns the database X and
\* the owner Y; both without brackets and without a quote flag.
C15_BracketsSuppressDot ==
    Resolved =>
        LET s == schema[1].text
            n == Len(s)
        IN /\ (n >= 3 /\ s[1] = "[" /\ s[n] = "]" /\ IsName(Inner(s))) =>
                 /\ dbname = NoneVal
                 /\ owner = <<Str(Inner(s))>>
           /\ \A i \in DOMAIN s :
                 (/\ i + 4 <= n
                  /\ s[1] = "[" /\ s[i] = "]" /\ s[i + 1] = "."
                  /\ s[i + 2] = "[" /\ s[n] = "]"
                  /\ IsName(SubSeq(s, 2, i - 1))
                  /\ IsName(SubSeq(s, i + 3, n - 1))) =>
                     /\ dbname = <<Str(SubSeq(s, 2, i - 1))>>
                     /\ owner = <<Str(SubSeq(s, i + 3, n - 1))>>

C15_Witness ==
    /\ spc = "quote_schema"
    /\ schema = <<Str(<<"[", "a", ".", "b", "]", ".", "[", "b", ".", "a", "]">>)>>
    /\ dbname = <<Str(<<"a", ".", "b">>)>>
    /\ owner = <<Str(<<"b", ".", "a">>)>>

\* C16 as stated, for the well-formed schema strings: with a "." outside
\* brackets, the owner is the text after the last such "." and the database
\* the text before it, each as written or without the pair of brackets
\* around it.
C16_SplitOnLastDot ==
    (/\ Resolved
     /\ WellFormed(schema[1].text)
     /\ UnbracketedDots(schema[1].text) # {}) =>
        LET s == schema[1].text
            last == CHOOSE i \in UnbracketedDots(s) :
                        \A j \in UnbracketedDots(s) : j <= i
            before == SubSeq(s, 1, last - 1)
            after == SubSeq(s, last + 1, Len(s))
        IN /\ dbname # NoneVal
           /\ dbname[1].text \in {before, Unbracket(before)}
           /\ owner # NoneVal
           /\ owner[1].text \in {after, Unbracket(after)}

\* C17 as stated, for the well-formed schema strings, whose brackets are
\* balanced: a returned database either has no "[" and no "]", or is
\* flagged as delimited (quote=False) and has balanced brackets.
C17_DatabaseBracketsWellFormed ==
    (Resolved /\ WellFormed(schema[1].text) /\ dbname # NoneVal) =>
        \/ (dbname[1].quote = NoneVal /\ NoBracket(dbname[1].text))
        \/ (dbname[1].quote = <<FALSE>> /\ Balanced(dbname[1].text))

\* C18: _owner_plus_db returns no database and the dialect's default schema
\* name as the owner for a schema that is None or empty, and no database
\* and the schema argument itself as the owner for a non-empty schema
\* without ".", brackets or not.
C18_NoDotNoDatabase ==
    spc = "_owner_plus_db" =>
        IF schema = NoneVal \/ schema[1].text = <<>>
        THEN dbname = NoneVal /\ owner = <<default_schema_name>>
        ELSE (\A i \in DOMAIN schema[1].text : schema[1].text[i] # ".") =>
                dbname = NoneVal /\ owner = schema

C18_Witness ==
    /\ spc = "_owner_plus_db"
    /\ schema = <<Str(<<"[", "a", "]">>)>>
    /\ dbname = NoneVal
    /\ owner = <<Str(<<"[", "a", "]">>)>>

\* C19 as stated, for the well-formed schema strings, whose brackets are
\* balanced: resolving the text that quote_schema renders from the resolved
\* pair gives the same pair again.
C19_ReformatIdempotent ==
    (Resolved /\ WellFormed(schema[1].text)) =>
        ParseSchema(rendered[1]) = [dbname |-> dbname, owner |-> owner]


(***************************************************************************)
(* Properties of the ROW_NUMBER rewrite as a tree transformation           *)
(***************************************************************************)

\* the number of ROW_NUMBER rewrites the render call has applied so far
RowNumberWrappers == Len(SelectSeq(applied, LAMBDA a : a = "ROW_NUMBER"))

\* translate_select_structure hands the statement back as it is
ReturnsUnchanged(select) ==
    LET r == translate_select_structure(select, supports_offset_fetch)
    IN /\ ~r.raises
       /\ ~r.rewrote
       /\ r.result = select

\* C22: the pagination rewrite is idempotent: translate_select_structure
\* applied to a statement it produced, the tagged inner SELECT or the outer
\* SELECT it returned, hands that statement back unchanged, and a render
\* call never applies a second ROW_NUMBER wrapper.
C22_RewriteIdempotent ==
    Rendering =>
        /\ RowNumberWrappers <= 1
        /\ Rewrote =>
              /\ ReturnsUnchanged(rewritten[1])
              /\ ReturnsUnchanged(rewritten[1].inner[1])

\* a rewritten statement whose tagged inner SELECT has been visited in turn
C22_Witness ==
    /\ ppc = "done"
    /\ Rewrote
    /\ ~compile_error
    /\ rewritten[1].inner[1].mssql_visit
    /\ rewritten[1].inner[1].offset = [kind |-> "simple", value |-> 10]
    /\ RowNumberWrappers = 1

\* C23: translate_select_structure never changes the statement it is given:
\* from the start of a render call on, through any number of further render
\* calls of the same statement, the caller's statement stays as it was (no
\* tag, no row number column, its ORDER BY kept), and the rewrite a render
\* call produced is the one translating the caller's statement yields.
C23_OriginalUntouched ==
    /\ [][(ppc # "off" /\ ppc' # "off") => sel' = sel]_vars
    /\ [](Rendering /\ rewritten # NoneVal =>
             /\ ~sel.mssql_visit
             /\ rewritten[1] =
                    translate_select_structure(sel,
                                               supports_offset_fetch).result)

\* the rewrite of an ordered statement is over and the caller's statement
\* still has its ORDER BY and its own columns
C23_Witness ==
    /\ ppc = "done"
    /\ Rewrote
    /\ sel.order_by
    /\ ~sel.mssql_visit
    /\ sel.columns = <<"x", "y">>
    /\ rewritten[1].inner[1].columns = <<"x", "y", "mssql_rn">>

\* C24: the outer query of the ROW_NUMBER rewrite selects the columns of the
\* original projection, all of them and only them, and has no ORDER BY.
C24_OuterKeepsProjection ==
    Rendering /\ Rewrote =>
        /\ rewritten[1].columns = sel.columns
        /\ ~rewritten[1].order_by


(***************************************************************************)
(* Properties of the legacy schema mode (checked under SpecAlias).         *)
(***************************************************************************)
SchemaTables == { t \in Tables : t.schema # NoneVal }

\* the rendered references to the table
RefsTo(t) == { i \in 1 .. Len(out) : out[i].table = t }

\* the reference goes through an anonymous alias the compiler made
ThroughAnon(i) == out[i].alias # NoneVal /\ out[i].alias[1].anon > 0

\* how many times alias() was called on the table
AliasCalls(t) == Cardinality({ i \in 1 .. Len(alias_calls) : alias_calls[i] = t })

\* C27: in legacy schema mode, when the compile of a SELECT, an UPDATE or a
\* DELETE is over, for every table with a schema: alias() was called on it
\* at most once, all references through an anonymous alias use the same
\* alias, the table standing in a FROM list is rendered through that alias,
\* and where it is, every column of the table is rendered through it too.
C27_AliasedConsistently ==
    (apc = "done" /\ legacy_schema_aliasing) =>
        \A t \in SchemaTables :
            /\ AliasCalls(t) <= 1
            /\ \A i, j \in RefsTo(t) :
                   ThroughAnon(i) /\ ThroughAnon(j) =>
                       out[i].alias = out[j].alias
            /\ \A i \in RefsTo(t) :
                   out[i].pos = "from" /\ out[i].alias # <<Alias(t, 0)>> =>
                       ThroughAnon(i)
            /\ \A i, j \in RefsTo(t) :
                   out[i].pos = "from" /\ ThroughAnon(i)
                       /\ out[j].pos = "column" =>
                           out[j].alias = out[i].alias


(***************************************************************************)
(* Properties of the cache of the resolver (checked under SpecCache).      *)
(***************************************************************************)
\* the thread has the pair of a call that went through the cache
Returned(t) ==
    callers[t].pc = "returned" /\ callers[t].arg[1].quote # <<TRUE>>

\* the pair is the one a computation on the string yields
FreshPair(pair, s) ==
    /\ pair.dbname = ParseSchema(s).dbname
    /\ pair.owner = ParseSchema(s).owner

\* C25: over any sequence of _schema_elements calls, a call with the string
\* s returns the pair an uncached computation on s yields, whether it was
\* served from the cache or not and whatever was resolved, cached or
\* evicted in between, and every entry of the cache holds the pair computed
\* from the very string it is stored under.
C25_CacheIsTransparent ==
    /\ \A t \in Threads :
           Returned(t) => FreshPair(callers[t].result[1], callers[t].arg[1].text)
    /\ \A i \in DOMAIN memoized_schema :
           FreshPair(memoized_schema[i], memoized_schema[i].key)
    /\ Len(memoized_schema) <= MaxCache

\* "a.a" is served from a full cache that also holds "[a.a]"
C25_Witness ==
    /\ Returned(1)
    /\ callers[1].hit
    /\ callers[1].arg[1].text = <<"a", ".", "a">>
    /\ callers[1].result[1].dbname # NoneVal
    /\ Len(memoized_schema) = MaxCache
    /\ \E i \in DOMAIN memoized_schema :
           memoized_schema[i].key = <<"[", "a", ".", "a", "]">>

\* C26: when several threads call _schema_elements against the shared
\* cache, under every interleaving of the membership test, the read, the
\* insert and the eviction, no call raises an error and every call returns
\* the pair a sequential call on the same string returns.
C26_ConcurrentCallsSafe ==
    \A t \in Threads :
        /\ callers[t].pc # "KeyError"
        /\ Returned(t) =>
               FreshPair(callers[t].result[1], callers[t].arg[1].text)


(***************************************************************************)
(* The order of the enabling and the disabling statement (SpecExec).       *)
(***************************************************************************)
\* C28 as stated: every SET IDENTITY_INSERT OFF in the log of an invocation
\* comes after a SET IDENTITY_INSERT ON of that invocation that succeeded;
\* when the enabling statement fails, no disabling statement is sent.
C28_OffOnlyAfterSuccessfulOn ==
    \A i \in Idx(SET_OFF) : \E j \in Idx(SET_ON) : j < i /\ log[j].ok

\* C28, amended: every SET IDENTITY_INSERT OFF in the log of an invocation
\* comes after a SET IDENTITY_INSERT ON that the same invocation has sent,
\* whether that one succeeded or failed.
C28_OffOnlyAfterOnWasSent ==
    \A i \in Idx(SET_OFF) : \E j \in Idx(SET_ON) : j < i

\* the enabling statement failed and the handler has sent the disabling one
C28_Witness ==
    /\ raised = "enable"
    /\ SqlOf(log) = <<SET_ON, SET_OFF>>
    /\ ~log[1].ok
    /\ ~identity_insert_on


(***************************************************************************)
(* Properties of the calls on a connection (checked under SpecConn).       *)
(***************************************************************************)
\* the step is a call of set_isolation_level
SetsLevel == cpc = "idle" /\ cpc' = "set_isolation_level"

\* C21: set_isolation_level with a level that, once "_" is replaced by " ",
\* is not in the recognized set raises ArgumentError with the offending
\* value and the valid levels, and nothing has happened on the connection:
\* no cursor, no statement, no commit, the isolation level as before.
C21_InvalidLevelRejected ==
    [][SetsLevel /\ replace(ccall'.level) \notin _isolation_lookup =>
          /\ cresult' = <<Raise("ArgumentError", replace(ccall'.level),
                                _isolation_lookup)>>
          /\ clog' = <<>>
          /\ isolation_level' = isolation_level
          /\ database' = database]_vars

\* AUTOCOMMIT is rejected on a connection whose level an earlier call had
\* set to SNAPSHOT
C21_Witness ==
    /\ cpc = "set_isolation_level"
    /\ ccall.level = <<"AUTOCOMMIT">>
    /\ cresult[1].exc = "ArgumentError"
    /\ cresult[1].value = <<"AUTOCOMMIT">>
    /\ clog = <<>>
    /\ isolation_level = <<"SNAPSHOT">>

\* positions in clog
Events(kind) == { i \in DOMAIN clog : clog[i].ev = kind }
UseEvents == { i \in Events("execute") : clog[i].arg[1] = "use" }
LastEvent == clog[Len(clog)]

\* the views queried, in the order of the queries
Queried == [k \in 1 .. Cardinality(Events("execute")) |->
               clog[CHOOSE i \in Events("execute") :
                       Cardinality({ j \in Events("execute") : j <= i }) = k]]

InSwitchDb == cpc \in {"fn", "_switch_db"}
Differs ==
    /\ InSwitchDb
    /\ Truthy(ccall.dbname)
    /\ ccall.current_db # NoneVal
    /\ ccall.current_db # ccall.dbname
FnRan == Events("fn") # {}

\* the step is a call of _switch_db with a database name other than the
\* current database
SwitchesAway ==
    /\ cpc = "idle"
    /\ cpc' \in {"fn", "_switch_db"}
    /\ Truthy(ccall'.dbname)
    /\ ccall'.dbname # <<database>>

\* C29 as stated: every call with a database name that differs from the
\* current database runs the wrapped function with that database current,
\* and once the function has returned or raised the connection is back on
\* the database it was on before the call; without a database name, or with
\* the name of the current database, no "use" statement is sent.
C29_AlwaysRestored ==
    /\ [][SwitchesAway =>
              cpc' = "fn" /\ database' = ccall'.dbname[1]]_vars
    /\ [](cpc = "_switch_db" /\ Differs /\ FnRan =>
              database = ccall.current_db[1])
    /\ [](InSwitchDb /\ ~Differs => UseEvents = {})

\* C29, amended: such a call either runs the wrapped function with the
\* given database current, or raises before it, with the database unchanged,
\* because "select db_name()" or "use" failed; once the function has
\* returned or raised, the last statement sent is a "use" of the database
\* the connection was on before the call, and the connection is back on it
\* unless that statement failed, in which case the call raises and the
\* connection stays on the given database; without a database name, or with
\* the name of the current database, no "use" statement is sent.
C29_RestoredUnlessUseFails ==
    /\ [][SwitchesAway =>
              \/ cpc' = "fn" /\ database' = ccall'.dbname[1]
              \/ /\ cpc' = "_switch_db"
                 /\ cresult'[1].kind = "raise"
                 /\ database' = database
                 /\ ~clog'[Len(clog')].ok]_vars
    /\ [](cpc = "fn" /\ Differs => database = ccall.dbname[1])
    /\ [](cpc = "_switch_db" /\ Differs /\ FnRan =>
              /\ LastEvent.ev = "execute"
              /\ LastEvent.arg = <<"use", ccall.current_db[1]>>
              /\ LastEvent.ok => database = ccall.current_db[1]
              /\ ~LastEvent.ok =>
                     /\ database = ccall.dbname[1]
                     /\ cresult[1].kind = "raise")
    /\ [](InSwitchDb /\ ~Differs => UseEvents = {})

\* the wrapped function raised on "tempdb" and the connection is back on
\* "master"
C29_Witness ==
    /\ cpc = "_switch_db"
    /\ ccall.dbname = <<"tempdb">>
    /\ ccall.current_db = <<"master">>
    /\ clog = <<Execute(0, <<"select db_name()">>, TRUE),
                Execute(0, <<"use", "tempdb">>, TRUE),
                Fn("tempdb", FALSE),
                Execute(0, <<"use", "master">>, TRUE)>>
    /\ cresult[1].kind = "raise"
    /\ database = "master"

====
